---- MODULE Spec2Model ----
(***************************************************************************)
(* A model of the thailand-map data layer: GeoJSONDataManager              *)
(* (src/lib/geojson-utils.ts), its concurrent five-level load, its         *)
(* insertion-ordered search index, search() and getStatistics(); of the    *)
(* geometry functions (bounds, centre, the label centroid of SimpleMap);   *)
(* and of MapStyleManager (src/lib/types.ts) with its colour functions.    *)
(*                                                                         *)
(* Strings are sequences of one-character strings, so that toLowerCase,    *)
(* trim and includes are computed character by character.  A JavaScript    *)
(* Map is a function (data) or, where iteration order matters, a sequence  *)
(* of entries in insertion order (searchIndex).                            *)
(***************************************************************************)
EXTENDS Integers, Sequences, FiniteSets, TLC

VARIABLES
    data,         \* GeoJSONDataManager.data: level -> stored collection
    searchIndex,  \* GeoJSONDataManager.searchIndex, in insertion order
    nextDoc,      \* number of documents parsed so far (object identity)
    ops,          \* loadGeoJSONData() calls: per-level task state, promise outcome
    failedSince,  \* history: a level task failed and no call has fulfilled since
    lastSearch,   \* the last search(query, limit) call and what it returned
    lastStats,    \* the last getStatistics(level) call and what it returned
    regionColors, \* MapStyleManager.regionColors: region name -> colour
    areaRange,    \* MapStyleManager.areaRange: {min, max}
    customColors, \* MapStyleManager.customColors: feature id -> colour
    styleLog,     \* history: the setCustomColor / clearCustomColors calls made
    lastRegions,  \* the list the last updateRegionColors(regions) call was given
    lastStyle,    \* the last getFeatureStyle call and what it returned
    lastTooltip,  \* the last createTooltipData call and what it returned
    lastOverride, \* the last getHighlightStyle / getSelectedStyle call and its result
    lastCall,     \* history: the name of the last style function called
    featureGeometry, \* the geometry of the feature the geometry functions are given
    lastBounds,   \* what getFeatureBounds returned for it
    lastCenter,   \* what getFeatureCenter returned for it
    lastLabel,    \* where onEachFeature put its label
    lastPoint,    \* the last isPointInThailand(lat, lng) call and what it returned
    currentLevel,       \* Home state: the level shown
    areaColors,         \* Home state: Map area code -> colour
    selectedProvinces,  \* Home state: province filter
    selectedDistricts,  \* Home state: district filter
    borderColor,        \* Home state
    showAreaNames,      \* Home state
    isSaved,            \* Home state
    selectedColor,      \* Home state: the colour a click paints
    areaColorsRef,      \* SimpleMap: areaColorsRef.current
    selectedColorRef,   \* SimpleMap: selectedColorRef.current
    storage,            \* localStorage item "thailand-map-config", <<>> if none
    exportedFile,       \* the text of the last file exportConfig wrote, <<>> if none
    reading,            \* the files a FileReader is reading for an import
    lastEvent,          \* history: the last handler of the page that ran
    origin,             \* history: the configurations last exported and last saved
    mapLayers,          \* SimpleMap: the area layers and border overlays on the map
    currentLayerRef,    \* SimpleMap: currentLayerRef.current
    labelsLayer,        \* SimpleMap: the markers of labelsLayerRef.current
    provinceBordersRef, \* SimpleMap: provinceBordersRef.current
    districtBordersRef, \* SimpleMap: districtBordersRef.current
    levelLoads          \* SimpleMap: the loadLevelData() calls made, each with
                        \* the props of the render it closed over and its position

dmVars == <<data, searchIndex, nextDoc, ops, failedSince, lastSearch, lastStats>>
styleVars == <<regionColors, areaRange, customColors, styleLog, lastRegions,
               lastStyle, lastTooltip, lastOverride, lastCall>>
geomVars == <<featureGeometry, lastBounds, lastCenter, lastLabel>>
pointVars == <<lastPoint>>
configVars == <<currentLevel, areaColors, selectedProvinces, selectedDistricts,
                borderColor, showAreaNames>>
pageVars == <<configVars, isSaved, selectedColor, areaColorsRef, selectedColorRef,
              storage, exportedFile, reading, lastEvent, origin>>
mapVars == <<mapLayers, currentLayerRef, labelsLayer, provinceBordersRef,
             districtBordersRef, levelLoads>>
vars == <<dmVars, styleVars, geomVars, pointVars, pageVars, mapVars>>

(***************************************************************************)
(* Bounds of the model.                                                    *)
(***************************************************************************)
MaxLoads == 2       \* loadGeoJSONData() calls in one behaviour
MaxStores == 2      \* level documents stored in one behaviour of SpecSearch
MaxQueryLen == 2    \* longest query typed
MaxLimit == 1       \* largest explicit limit argument

(***************************************************************************)
(* Strings.                                                                *)
(***************************************************************************)
SetMin(S) == CHOOSE x \in S : \A y \in S : x <= y
SetMax(S) == CHOOSE x \in S : \A y \in S : x >= y

\* String.prototype.toLowerCase, on the letters the model uses
ToLowerChar(c) ==
    CASE c = "A" -> "a"
      [] c = "B" -> "b"
      [] OTHER -> c

toLowerCase(s) == [i \in 1..Len(s) |-> ToLowerChar(s[i])]

IsSpace(c) == c \in {" ", "\n"}

\* String.prototype.trim
trim(s) ==
    LET keep == {i \in 1..Len(s) : ~IsSpace(s[i])}
    IN  IF keep = {} THEN <<>> ELSE SubSeq(s, SetMin(keep), SetMax(keep))

\* String.prototype.includes
includes(s, sub) ==
    \E i \in 0..(Len(s) - Len(sub)) : SubSeq(s, i + 1, i + Len(sub)) = sub

\* Array.prototype.slice(0, end)
slice(s, end) ==
    LET e == IF end < 0 THEN (IF Len(s) + end < 0 THEN 0 ELSE Len(s) + end)
             ELSE (IF end > Len(s) THEN Len(s) ELSE end)
    IN  SubSeq(s, 1, e)

\* Boolean(term) for a string or undefined (modelled as the empty string)
Truthy(s) == s /= <<>>

RECURSIVE FilterTruthy(_)
FilterTruthy(terms) ==
    IF terms = <<>> THEN <<>>
    ELSE (IF Truthy(Head(terms)) THEN <<Head(terms)>> ELSE <<>>)
         \o FilterTruthy(Tail(terms))

(***************************************************************************)
(* Administrative levels and feature properties.                           *)
(***************************************************************************)
Levels == <<"provinces", "districts", "subdistricts", "region_royin", "region_nesdb">>
LevelSet == {Levels[i] : i \in 1..Len(Levels)}

NoProps ==
    [pro_code |-> <<>>, pro_th |-> <<>>, pro_en |-> <<>>,
     amp_code |-> <<>>, amp_th |-> <<>>, amp_en |-> <<>>,
     tam_code |-> <<>>, tam_th |-> <<>>, tam_en |-> <<>>,
     reg_royin |-> <<>>, reg_nesdb |-> <<>>,
     area_sqkm |-> [t |-> "undefined", v |-> 0, s |-> <<>>],
     perimeter |-> [t |-> "undefined", v |-> 0, s |-> <<>>]]

\* The values a property read as a number can have after JSON.parse
\* (string | number | boolean | null | undefined): t is the type, v the
\* value of a number or boolean, s the characters of a string.
JsonNumber(n) == [t |-> "number", v |-> n, s |-> <<>>]
JsonNull == [t |-> "null", v |-> 0, s |-> <<>>]
JsonUndefined == [t |-> "undefined", v |-> 0, s |-> <<>>]
JsonString(s) == [t |-> "string", v |-> 0, s |-> s]
JsonBoolean(b) == [t |-> "boolean", v |-> IF b THEN 1 ELSE 0, s |-> <<>>]
\* a number literal beyond the range of a double, such as 1e999
JsonHuge == [t |-> "huge", v |-> 1, s |-> <<>>]

Digits == <<"0", "1", "2", "3", "4", "5", "6", "7", "8", "9">>
TwoDigits(n) == <<Digits[(n \div 10) + 1], Digits[(n % 10) + 1]>>

ProvinceProps(code, th, en, area) ==
    [NoProps EXCEPT !.pro_code = code, !.pro_th = th, !.pro_en = en,
                    !.area_sqkm = JsonNumber(area)]

DistrictProps(code, th, en, pth, pen, area) ==
    [NoProps EXCEPT !.amp_code = code, !.amp_th = th, !.amp_en = en,
                    !.pro_th = pth, !.pro_en = pen,
                    !.area_sqkm = JsonNumber(area)]

SubdistrictProps(code, th, en, ath, aen, pth, pen, area) ==
    [NoProps EXCEPT !.tam_code = code, !.tam_th = th, !.tam_en = en,
                    !.amp_th = ath, !.amp_en = aen,
                    !.pro_th = pth, !.pro_en = pen,
                    !.area_sqkm = JsonNumber(area)]

RegionProps(royin, nesdb, area) ==
    [NoProps EXCEPT !.reg_royin = royin, !.reg_nesdb = nesdb,
                    !.area_sqkm = JsonNumber(area)]

(***************************************************************************)
(* The documents the server may answer with for /data/<level>.geojson:     *)
(* each is the features array of a well-typed feature collection.  They    *)
(* include names that differ only in case or surrounding blanks, a name    *)
(* made of a blank, two features with identical properties, a province     *)
(* with more districts than the default result limit, and a collection     *)
(* without features.                                                       *)
(***************************************************************************)
ProvincesDoc1 ==
    << ProvinceProps(<<"1", "0">>, <<"a">>, <<"A", "b">>, 2),
       ProvinceProps(<<"2", "0">>, <<"b", " ">>, <<"b", "a">>, 4) >>

ProvincesDoc2 ==
    << ProvinceProps(<<"3", "0">>, <<" ">>, <<"a">>, 3) >>

DistrictsDoc1 ==
    << DistrictProps(<<"0", "1">>, <<"b">>, <<"a", "b">>, <<"a">>, <<"A", "b">>, 1),
       DistrictProps(<<"0", "2">>, <<"a", "a">>, <<"B">>, <<"a">>, <<"A", "b">>, 3),
       DistrictProps(<<"0", "1">>, <<"b">>, <<"a", "b">>, <<"a">>, <<"A", "b">>, 1),
       DistrictProps(<<"0", "3">>, <<"b", "b">>, <<>>, <<" ">>, <<>>, 0) >>

\* one province with DefaultLimit + 1 districts
DistrictsDoc2 ==
    [i \in 1..21 |-> DistrictProps(TwoDigits(i), <<"b">>, <<"B">>, <<"a">>, <<"A", "b">>, 1)]

SubdistrictsDoc1 ==
    << SubdistrictProps(<<"1", "1">>, <<"a", "b">>, <<"b">>,
                        <<"b">>, <<"a", "b">>, <<"a">>, <<"A", "b">>, 1),
       SubdistrictProps(<<"1", "2">>, <<"A">>, <<"b", "a">>,
                        <<"a", "a">>, <<"B">>, <<"a">>, <<"A", "b">>, 2) >>

RegionRoyinDoc1 ==
    << RegionProps(<<"B", "a">>, <<>>, 5), RegionProps(<<"a">>, <<"b">>, 7) >>

RegionNesdbDoc1 ==
    << RegionProps(<<>>, <<"a", "b">>, 5),
       [RegionProps(<<>>, <<"b">>, 0) EXCEPT !.area_sqkm = JsonNull] >>

\* { "type": "FeatureCollection", "features": [] }
RegionNesdbDoc0 == <<>>

ServerDocs(level) ==
    CASE level = "provinces" -> {ProvincesDoc1, ProvincesDoc2}
      [] level = "districts" -> {DistrictsDoc1, DistrictsDoc2}
      [] level = "subdistricts" -> {SubdistrictsDoc1}
      [] level = "region_royin" -> {RegionRoyinDoc1}
      [] level = "region_nesdb" -> {RegionNesdbDoc1, RegionNesdbDoc0}

\* the file a load call is served (one file per level while the calls run)
ServerFile(level) ==
    CASE level = "provinces" -> ProvincesDoc1
      [] level = "districts" -> DistrictsDoc1
      [] level = "subdistricts" -> SubdistrictsDoc1
      [] level = "region_royin" -> RegionRoyinDoc1
      [] level = "region_nesdb" -> RegionNesdbDoc1

\* response.json(): a fresh collection object; obj is the identity of each
\* feature object it creates
ParseDoc(docId, doc) ==
    [id |-> docId,
     features |-> [i \in 1..Len(doc) |-> [obj |-> <<docId, i>>, props |-> doc[i]]]]

(***************************************************************************)
(* The search index.                                                       *)
(***************************************************************************)
\* mutant: the term is trimmed but its case is kept
normalizeKeepCase(term) == trim(term)

normalizeSearchTerm(term) == trim(toLowerCase(term))

\* mutant: a district or subdistrict is indexed under its own names and code only
extractOwnTerms(props, level) ==
    FilterTruthy(
        CASE level = "provinces" ->
               <<props.pro_th, props.pro_en, props.pro_code>>
          [] level = "districts" ->
               <<props.amp_th, props.amp_en, props.amp_code>>
          [] level = "subdistricts" ->
               <<props.tam_th, props.tam_en, props.tam_code>>
          [] OTHER ->
               (IF Truthy(props.reg_royin) THEN <<props.reg_royin>> ELSE <<>>)
               \o (IF Truthy(props.reg_nesdb) THEN <<props.reg_nesdb>> ELSE <<>>))

extractSearchTerms(props, level) ==
    FilterTruthy(
        CASE level = "provinces" ->
               <<props.pro_th, props.pro_en, props.pro_code>>
          [] level = "districts" ->
               <<props.amp_th, props.amp_en, props.amp_code,
                 props.pro_th, props.pro_en>>
          [] level = "subdistricts" ->
               <<props.tam_th, props.tam_en, props.tam_code,
                 props.amp_th, props.amp_en, props.pro_th, props.pro_en>>
          [] OTHER ->
               (IF Truthy(props.reg_royin) THEN <<props.reg_royin>> ELSE <<>>)
               \o (IF Truthy(props.reg_nesdb) THEN <<props.reg_nesdb>> ELSE <<>>))

UnknownRegion ==
    <<"U", "n", "k", "n", "o", "w", "n", " ", "R", "e", "g", "i", "o", "n">>

getDisplayName(props, level) ==
    CASE level = "provinces" ->
           props.pro_th \o <<" ", "(">> \o props.pro_en \o <<")">>
      [] level = "districts" ->
           props.amp_th \o <<",", " ">> \o props.pro_th
      [] level = "subdistricts" ->
           props.tam_th \o <<",", " ">> \o props.amp_th \o <<",", " ">> \o props.pro_th
      [] level = "region_royin" ->
           IF Truthy(props.reg_royin) THEN props.reg_royin ELSE UnknownRegion
      [] level = "region_nesdb" ->
           IF Truthy(props.reg_nesdb) THEN props.reg_nesdb ELSE UnknownRegion

\* searchIndex.has / set / get(...).push for one normalized term
IndexPush(index, term, result) ==
    IF \E i \in 1..Len(index) : index[i].term = term
    THEN LET at == CHOOSE i \in 1..Len(index) : index[i].term = term
         IN  [index EXCEPT ![at].bucket = Append(@, result)]
    ELSE Append(index, [term |-> term, bucket |-> <<result>>])

RECURSIVE IndexTerms(_, _, _)
IndexTerms(index, terms, result) ==
    \* (Len(index) < 0 never holds: the test has TLC evaluate index here, before
    \* the recursion, instead of building a chain of unevaluated arguments)
    IF terms = <<>> \/ Len(index) < 0 THEN index
    ELSE IndexTerms(IndexPush(index, normalizeSearchTerm(Head(terms)), result),
                    Tail(terms), result)

RECURSIVE buildSearchIndex(_, _, _)
buildSearchIndex(index, level, features) ==
    IF features = <<>> \/ Len(index) < 0 THEN index
    ELSE LET f == Head(features)
             result == [feature |-> f, level |-> level,
                        displayName |-> getDisplayName(f.props, level)]
         IN  buildSearchIndex(
                 IndexTerms(index, extractSearchTerms(f.props, level), result),
                 level, Tail(features))

(***************************************************************************)
(* search(query, limit)                                                    *)
(***************************************************************************)
DefaultLimit == 20

\* `${result.level}-${JSON.stringify(result.feature.properties)}`
ResultKey(result) == <<result.level, result.feature.props>>

\* mutant: the exact pass puts each new result in front (unshift for push)
RECURSIVE PushExactUnshift(_, _)
PushExactUnshift(acc, bucket) ==
    IF bucket = <<>> THEN acc
    ELSE LET r == Head(bucket)
             key == ResultKey(r)
         IN  IF key \notin acc.seen
             THEN PushExactUnshift([results |-> <<r>> \o acc.results,
                                    seen |-> acc.seen \cup {key}],
                                   Tail(bucket))
             ELSE PushExactUnshift(acc, Tail(bucket))

\* termResults.forEach of the exact pass
RECURSIVE PushExact(_, _)
PushExact(acc, bucket) ==
    IF bucket = <<>> THEN acc
    ELSE LET r == Head(bucket)
             key == ResultKey(r)
         IN  IF key \notin acc.seen
             THEN PushExact([results |-> Append(acc.results, r),
                             seen |-> acc.seen \cup {key}],
                            Tail(bucket))
             ELSE PushExact(acc, Tail(bucket))

\* mutant: the partial pass does not look at the seen set
RECURSIVE PushPartialUnseen(_, _, _)
PushPartialUnseen(acc, bucket, limit) ==
    IF bucket = <<>> THEN acc
    ELSE LET r == Head(bucket)
         IN  IF Len(acc.results) < limit
             THEN PushPartialUnseen([results |-> Append(acc.results, r),
                                     seen |-> acc.seen \cup {ResultKey(r)}],
                                    Tail(bucket), limit)
             ELSE PushPartialUnseen(acc, Tail(bucket), limit)

\* termResults.forEach of the partial pass
RECURSIVE PushPartial(_, _, _)
PushPartial(acc, bucket, limit) ==
    IF bucket = <<>> THEN acc
    ELSE LET r == Head(bucket)
             key == ResultKey(r)
         IN  IF key \notin acc.seen /\ Len(acc.results) < limit
             THEN PushPartial([results |-> Append(acc.results, r),
                               seen |-> acc.seen \cup {key}],
                              Tail(bucket), limit)
             ELSE PushPartial(acc, Tail(bucket), limit)

\* for (const [term, termResults] of this.searchIndex.entries()), exact pass
\* (Len(acc.results) < 0 never holds: as in IndexTerms, the test has TLC
\* evaluate the accumulator before the recursion)
RECURSIVE ExactPass(_, _, _)
ExactPass(acc, index, normalizedQuery) ==
    IF index = <<>> \/ Len(acc.results) < 0 THEN acc
    ELSE IF Head(index).term = normalizedQuery
         THEN ExactPass(PushExact(acc, Head(index).bucket),
                        Tail(index), normalizedQuery)
         ELSE ExactPass(acc, Tail(index), normalizedQuery)

\* for (const [term, termResults] of this.searchIndex.entries()), partial pass
RECURSIVE PartialPass(_, _, _, _)
PartialPass(acc, index, normalizedQuery, limit) ==
    IF index = <<>> \/ Len(acc.results) < 0 THEN acc
    ELSE IF includes(Head(index).term, normalizedQuery)
            /\ Head(index).term /= normalizedQuery
         THEN PartialPass(PushPartial(acc, Head(index).bucket, limit),
                          Tail(index), normalizedQuery, limit)
         ELSE PartialPass(acc, Tail(index), normalizedQuery, limit)

\* mutant: no early return for a blank query
searchNoGuard(index, query, limit) ==
    LET normalizedQuery == normalizeSearchTerm(query)
        exact == ExactPass([results |-> <<>>, seen |-> {}], index, normalizedQuery)
        all == IF Len(exact.results) < limit
               THEN PartialPass(exact, index, normalizedQuery, limit)
               ELSE exact
    IN  slice(all.results, limit)

\* mutant: the list is returned without the final slice
searchNoSlice(index, query, limit) ==
    IF trim(query) = <<>> THEN <<>>
    ELSE LET normalizedQuery == normalizeSearchTerm(query)
             exact == ExactPass([results |-> <<>>, seen |-> {}], index, normalizedQuery)
             all == IF Len(exact.results) < limit
                    THEN PartialPass(exact, index, normalizedQuery, limit)
                    ELSE exact
         IN  all.results

search(index, query, limit) ==
    IF trim(query) = <<>> THEN <<>>
    ELSE LET normalizedQuery == normalizeSearchTerm(query)
             exact == ExactPass([results |-> <<>>, seen |-> {}], index, normalizedQuery)
             all == IF Len(exact.results) < limit
                    THEN PartialPass(exact, index, normalizedQuery, limit)
                    ELSE exact
         IN  slice(all.results, limit)

(***************************************************************************)
(* JavaScript numbers: a finite rational n/d in lowest terms, NaN, or an   *)
(* infinity (n is its sign).                                               *)
(***************************************************************************)
RECURSIVE Gcd(_, _)
Gcd(a, b) == IF b = 0 THEN a ELSE Gcd(b, a % b)

Abs(x) == IF x < 0 THEN -x ELSE x

Fin(n) == [k |-> "fin", n |-> n, d |-> 1]
NaN == [k |-> "nan", n |-> 0, d |-> 1]
Inf(sign) == [k |-> "inf", n |-> sign, d |-> 1]

IsDigit(c) == \E i \in 1..10 : Digits[i] = c
DigitValue(c) == (CHOOSE i \in 1..10 : Digits[i] = c) - 1

RECURSIVE DecimalValue(_, _)
DecimalValue(acc, s) ==
    IF s = <<>> THEN acc
    ELSE DecimalValue(10 * acc + DigitValue(Head(s)), Tail(s))

InfinityLiteral == <<"I", "n", "f", "i", "n", "i", "t", "y">>

\* Number(s) for a string: blanks around it are dropped; the empty string
\* is 0, a run of decimal digits is its value, Infinity with or without a
\* sign is infinite, anything else is NaN
StringToNumber(s) ==
    LET t == trim(s)
        signed == t /= <<>> /\ Head(t) \in {"+", "-"}
        body == IF signed THEN Tail(t) ELSE t
        sign == IF signed /\ Head(t) = "-" THEN -1 ELSE 1
    IN  IF t = <<>> THEN Fin(0)
        ELSE IF body = InfinityLiteral THEN Inf(sign)
        ELSE IF body /= <<>> /\ \A i \in 1..Len(body) : IsDigit(body[i])
        THEN Fin(sign * DecimalValue(0, body))
        ELSE NaN

\* Number(x) for the values of area_sqkm and perimeter
ToNumber(x) ==
    CASE x.t = "number" -> Fin(x.v)
      [] x.t = "huge" -> Inf(x.v)
      [] x.t = "boolean" -> Fin(x.v)
      [] x.t = "null" -> Fin(0)
      [] x.t = "undefined" -> NaN
      [] x.t = "string" -> StringToNumber(x.s)

\* x || 0 for a number x: 0 and NaN are falsy
OrZero(x) == IF x.k = "nan" \/ (x.k = "fin" /\ x.n = 0) THEN Fin(0) ELSE x

\* a + b
JsAdd(a, b) ==
    CASE a.k = "nan" \/ b.k = "nan" -> NaN
      [] a.k = "inf" /\ b.k = "inf" -> IF a.n = b.n THEN a ELSE NaN
      [] a.k = "inf" -> a
      [] b.k = "inf" -> b
      [] OTHER ->
           LET n == a.n * b.d + b.n * a.d
               d == a.d * b.d
               g == Gcd(Abs(n), d)
           IN  [k |-> "fin", n |-> n \div g, d |-> d \div g]

\* a / count for an array length count >= 0
JsDivCount(a, count) ==
    CASE a.k = "nan" -> NaN
      [] a.k = "inf" -> a
      [] count = 0 -> IF a.n = 0 THEN NaN ELSE Inf(IF a.n < 0 THEN -1 ELSE 1)
      [] OTHER ->
           LET d == a.d * count
               g == Gcd(Abs(a.n), d)
           IN  [k |-> "fin", n |-> a.n \div g, d |-> d \div g]

\* a fraction n / d with d /= 0, in lowest terms with a positive denominator
Ratio(n, d) ==
    LET sn == IF d < 0 THEN -n ELSE n
        sd == Abs(d)
        g == Gcd(Abs(sn), sd)
    IN  [k |-> "fin", n |-> sn \div g, d |-> sd \div g]

Sign(a) == IF a.n < 0 THEN -1 ELSE 1
IsZero(a) == a.k = "fin" /\ a.n = 0
IsFinite(a) == a.k = "fin"

\* -a
JsNeg(a) == IF a.k = "nan" THEN NaN ELSE [a EXCEPT !.n = -a.n]

\* a - b
JsSub(a, b) == JsAdd(a, JsNeg(b))

\* a * b
JsMul(a, b) ==
    CASE a.k = "nan" \/ b.k = "nan" -> NaN
      [] a.k = "inf" \/ b.k = "inf" ->
           IF IsZero(a) \/ IsZero(b) THEN NaN ELSE Inf(Sign(a) * Sign(b))
      [] OTHER -> Ratio(a.n * b.n, a.d * b.d)

\* a / b (a zero divisor is taken as +0)
JsDiv(a, b) ==
    CASE a.k = "nan" \/ b.k = "nan" -> NaN
      [] a.k = "inf" -> IF b.k = "inf" THEN NaN ELSE Inf(Sign(a) * Sign(b))
      [] b.k = "inf" -> Fin(0)
      [] b.n = 0 -> IF a.n = 0 THEN NaN ELSE Inf(Sign(a))
      [] OTHER -> Ratio(a.n * b.d, a.d * b.n)

\* a === b for numbers: NaN equals nothing
JsStrictEq(a, b) == a.k /= "nan" /\ b.k /= "nan" /\ a = b

\* a < b: false when either is NaN
JsLt(a, b) ==
    CASE a.k = "nan" \/ b.k = "nan" -> FALSE
      [] a.k = "inf" -> a.n < 0 /\ ~(b.k = "inf" /\ b.n < 0)
      [] b.k = "inf" -> b.n > 0
      [] OTHER -> a.n * b.d < b.n * a.d

\* a <= b: false when either is NaN
JsLe(a, b) == JsLt(a, b) \/ JsStrictEq(a, b)

\* Math.min(...xs): Infinity for no argument, NaN if any argument is NaN
RECURSIVE MathMin(_)
MathMin(xs) ==
    IF xs = <<>> THEN Inf(1)
    ELSE LET rest == MathMin(Tail(xs))
             x == Head(xs)
         IN  IF x.k = "nan" \/ rest.k = "nan" THEN NaN
             ELSE IF JsLt(x, rest) THEN x ELSE rest

\* Math.max(...xs): -Infinity for no argument, NaN if any argument is NaN
RECURSIVE MathMax(_)
MathMax(xs) ==
    IF xs = <<>> THEN Inf(-1)
    ELSE LET rest == MathMax(Tail(xs))
             x == Head(xs)
         IN  IF x.k = "nan" \/ rest.k = "nan" THEN NaN
             ELSE IF JsLt(rest, x) THEN x ELSE rest

RECURSIVE SumAreas(_, _)
SumAreas(sum, features) ==
    IF features = <<>> THEN sum
    ELSE SumAreas(JsAdd(sum, OrZero(ToNumber(Head(features).props.area_sqkm))),
                  Tail(features))

getStatistics(d, level) ==
    IF level \notin DOMAIN d
    THEN [count |-> 0, totalArea |-> Fin(0), averageArea |-> Fin(0)]
    ELSE LET features == d[level].features
             totalArea == SumAreas(Fin(0), features)
         IN  [count |-> Len(features),
              totalArea |-> totalArea,
              averageArea |-> JsDivCount(totalArea, Len(features))]

(***************************************************************************)
(* Colours.  A colour is a CSS string: a hex colour is kept by its text,   *)
(* the template string `hsl(${hue}, 70%, 50%)` by the number printed in    *)
(* it.  The empty string is the one falsy colour.                          *)
(***************************************************************************)
Hex(text) == [k |-> "hex", hex |-> text, hue |-> Fin(0)]
Hsl(hue) == [k |-> "hsl", hex |-> "", hue |-> hue]

colors ==
    <<"#e74c3c", "#3498db", "#2ecc71", "#f39c12", "#9b59b6",
      "#e67e22", "#1abc9c", "#34495e", "#f1c40f", "#95a5a6">>

\* Map.prototype.set on a Map read by key only
MapSet(m, key, value) ==
    [x \in DOMAIN m \cup {key} |-> IF x = key THEN value ELSE m[x]]

\* mutant: the colour is taken by the number of names already in the map
RECURSIVE ColorEachBySize(_, _, _)
ColorEachBySize(colorMap, regions, index) ==
    IF index >= Len(regions) THEN colorMap
    ELSE ColorEachBySize(
             MapSet(colorMap, regions[index + 1],
                    colors[(Cardinality(DOMAIN colorMap) % Len(colors)) + 1]),
             regions, index + 1)

\* regions.forEach((region, index) => colorMap.set(region, colors[index % 10]))
\* from the 0-based index on
RECURSIVE ColorEach(_, _, _)
ColorEach(colorMap, regions, index) ==
    IF index >= Len(regions) THEN colorMap
    ELSE ColorEach(MapSet(colorMap, regions[index + 1],
                          colors[(index % Len(colors)) + 1]),
                   regions, index + 1)

generateRegionColors(regions) == ColorEach(<< >>, regions, 0)

DefaultFill == "#3498db"

\* mutant: the equal ends of the range are not looked at
generateAreaGradientColorUnguarded(area, minArea, maxArea) ==
    Hsl(JsSub(Fin(240),
              JsMul(JsDiv(JsSub(area, minArea), JsSub(maxArea, minArea)), Fin(120))))

generateAreaGradientColor(area, minArea, maxArea) ==
    IF JsStrictEq(maxArea, minArea) THEN Hex(DefaultFill)
    ELSE LET normalized == JsDiv(JsSub(area, minArea), JsSub(maxArea, minArea))
             hue == JsSub(Fin(240), JsMul(normalized, Fin(120)))
         IN  Hsl(hue)

(***************************************************************************)
(* MapStyleManager (src/lib/types.ts): three caches and the fill colour    *)
(* of a feature under a colour scheme.                                     *)
(***************************************************************************)
Schemes == {"by-region", "by-area", "custom", "monochrome"}

\* the same style for every scheme
getDefaultStyle(colorScheme) ==
    [fillColor |-> Hex(DefaultFill), fillOpacity |-> Ratio(3, 5),
     color |-> "#2c3e50", weight |-> Fin(1), opacity |-> Ratio(4, 5)]

\* the fixed overrides of a hovered and of a selected feature
getHighlightStyle ==
    [fillOpacity |-> Ratio(4, 5), weight |-> Fin(3), color |-> "#e74c3c",
     opacity |-> Fin(1)]

getSelectedStyle ==
    [fillOpacity |-> Ratio(9, 10), weight |-> Fin(4), color |-> "#f39c12",
     opacity |-> Fin(1)]

RECURSIVE CoercedAreas(_)
CoercedAreas(features) ==
    IF features = <<>> THEN <<>>
    ELSE <<OrZero(ToNumber(Head(features).area_sqkm))>> \o CoercedAreas(Tail(features))

\* the range updateAreaRange(features) stores; a feature is its properties
updateAreaRange(features) ==
    LET areas == CoercedAreas(features)
    IN  [min |-> MathMin(areas), max |-> MathMax(areas)]

Unknown == <<"u", "n", "k", "n", "o", "w", "n">>

\* mutant: every level is identified by the province code
getFeatureIdProvince(props, level) == props.pro_code

getFeatureId(props, level) ==
    CASE level = "provinces" -> props.pro_code
      [] level = "districts" -> props.amp_code
      [] level = "subdistricts" -> props.tam_code
      [] level = "region_royin" ->
           IF Truthy(props.reg_royin) THEN props.reg_royin ELSE Unknown
      [] level = "region_nesdb" ->
           IF Truthy(props.reg_nesdb) THEN props.reg_nesdb ELSE Unknown

\* mutant: reg_nesdb is tried first
getRegionNameNesdbFirst(props) ==
    IF Truthy(props.reg_nesdb) THEN props.reg_nesdb
    ELSE IF Truthy(props.reg_royin) THEN props.reg_royin
    ELSE <<>>

\* the region name, or <<>> for null
getRegionName(props) ==
    IF Truthy(props.reg_royin) THEN props.reg_royin
    ELSE IF Truthy(props.reg_nesdb) THEN props.reg_nesdb
    ELSE <<>>

\* Map.prototype.get(key) || fallback, for a Map of colour texts
GetOr(m, key, fallback) ==
    IF key \in DOMAIN m /\ m[key] /= "" THEN Hex(m[key]) ELSE fallback

getFeatureStyle(regions, range, custom, props, level, colorScheme) ==
    LET baseStyle == getDefaultStyle(colorScheme)
        featureId == getFeatureId(props, level)
    IN  CASE colorScheme = "by-region" ->
               LET region == getRegionName(props)
               IN  [baseStyle EXCEPT !.fillColor =
                        IF region /= <<>> THEN GetOr(regions, region, @) ELSE @]
          [] colorScheme = "by-area" ->
               LET area == OrZero(ToNumber(props.area_sqkm))
               IN  [baseStyle EXCEPT !.fillColor =
                        generateAreaGradientColor(area, range.min, range.max)]
          [] colorScheme = "custom" ->
               [baseStyle EXCEPT !.fillColor = GetOr(custom, featureId, @)]
          [] OTHER -> baseStyle

CommaSpace == <<",", " ">>

\* createTooltipData(feature, level, position) without its position, which
\* is handed through
createTooltipData(props, level) ==
    LET names ==
          CASE level = "provinces" ->
                 <<props.pro_th, props.pro_en, props.pro_code>>
            [] level = "districts" ->
                 <<props.amp_th \o CommaSpace \o props.pro_th,
                   props.amp_en \o CommaSpace \o props.pro_en, props.amp_code>>
            [] level = "subdistricts" ->
                 <<props.tam_th \o CommaSpace \o props.amp_th,
                   props.tam_en \o CommaSpace \o props.amp_en, props.tam_code>>
            [] level = "region_royin" ->
                 LET name == IF Truthy(props.reg_royin) THEN props.reg_royin
                             ELSE UnknownRegion
                 IN  <<name, name, <<"R", "E", "G", "-", "R">> >>
            [] level = "region_nesdb" ->
                 LET name == IF Truthy(props.reg_nesdb) THEN props.reg_nesdb
                             ELSE UnknownRegion
                 IN  <<name, name, <<"R", "E", "G", "-", "N">> >>
    IN  [name_th |-> names[1], name_en |-> names[2], code |-> names[3],
         area |-> OrZero(ToNumber(props.area_sqkm)),
         perimeter |-> OrZero(ToNumber(props.perimeter))]

(***************************************************************************)
(* Geometry.  A position is a sequence of numbers, <<lng, lat>> or         *)
(* <<lng, lat, altitude>>; coordinates nest positions as deep as the       *)
(* geometry type says.  Coordinates are integers, sums and products of     *)
(* them are exact, and a quotient is an exact fraction, NaN or infinite.   *)
(***************************************************************************)
Depth(type) ==
    CASE type = "Point" -> 0
      [] type \in {"MultiPoint", "LineString"} -> 1
      [] type \in {"Polygon", "MultiLineString"} -> 2
      [] type = "MultiPolygon" -> 3

\* flatten of extractCoordinates: an array of exactly two numbers is a
\* pair, any other array is walked through, a number on its own is dropped
RECURSIVE flatten(_, _)
flatten(arr, depth) ==
    IF depth = 0 THEN IF Len(arr) = 2 THEN <<arr>> ELSE <<>>
    ELSE IF arr = <<>> THEN <<>>
    ELSE flatten(Head(arr), depth - 1) \o flatten(Tail(arr), depth)

extractCoordinates(geometry) == flatten(geometry.coordinates, Depth(geometry.type))

\* [[minLat, minLng], [maxLat, maxLng]]
getFeatureBounds(geometry) ==
    LET coords == extractCoordinates(geometry)
        lats == [i \in 1..Len(coords) |-> Fin(coords[i][2])]
        lngs == [i \in 1..Len(coords) |-> Fin(coords[i][1])]
    IN  <<<<MathMin(lats), MathMin(lngs)>>, <<MathMax(lats), MathMax(lngs)>>>>

\* [lat, lng]
getFeatureCenter(geometry) ==
    LET bounds == getFeatureBounds(geometry)
    IN  <<JsDiv(JsAdd(bounds[1][1], bounds[2][1]), Fin(2)),
          JsDiv(JsAdd(bounds[1][2], bounds[2][2]), Fin(2))>>

\* the loop of the centroid: for (i = 0; i < coordinates.length - 1; i++),
\* with i counted from 1 here
RECURSIVE ShoelaceSums(_, _, _)
ShoelaceSums(coordinates, i, sums) ==
    IF i >= Len(coordinates) THEN sums
    ELSE LET x0 == coordinates[i][1]
             y0 == coordinates[i][2]
             x1 == coordinates[i + 1][1]
             y1 == coordinates[i + 1][2]
             a == x0 * y1 - x1 * y0
         IN  ShoelaceSums(coordinates, i + 1,
                          [area |-> sums.area + a,
                           centroidLng |-> sums.centroidLng + (x0 + x1) * a,
                           centroidLat |-> sums.centroidLat + (y0 + y1) * a])

\* mutant: the sums are divided by six times the absolute area
CentroidAbsArea(coordinates) ==
    LET sums == ShoelaceSums(coordinates, 1,
                             [area |-> 0, centroidLng |-> 0, centroidLat |-> 0])
        area == Ratio(Abs(sums.area), 2)
    IN  [lat |-> JsDiv(Fin(sums.centroidLat), JsMul(Fin(6), area)),
         lng |-> JsDiv(Fin(sums.centroidLng), JsMul(Fin(6), area))]

\* area *= 0.5; centroidLng /= (6 * area); centroidLat /= (6 * area)
Centroid(coordinates) ==
    LET sums == ShoelaceSums(coordinates, 1,
                             [area |-> 0, centroidLng |-> 0, centroidLat |-> 0])
        area == Ratio(sums.area, 2)
    IN  [lat |-> JsDiv(Fin(sums.centroidLat), JsMul(Fin(6), area)),
         lng |-> JsDiv(Fin(sums.centroidLng), JsMul(Fin(6), area))]

\* where a label is put, or that placing it threw out of onEachFeature
At(lat, lng) == [k |-> "at", lat |-> lat, lng |-> lng]
Throws == [k |-> "throws", lat |-> NaN, lng |-> NaN]

\* every position of the geometry, as the map layer holds them
RECURSIVE LayerLatLngs(_, _)
LayerLatLngs(arr, depth) ==
    IF depth = 0 THEN IF Len(arr) >= 2 THEN <<arr>> ELSE <<>>
    ELSE IF arr = <<>> THEN <<>>
    ELSE LayerLatLngs(Head(arr), depth - 1) \o LayerLatLngs(Tail(arr), depth)

\* layer.getBounds().getCenter(): the midpoint of the layer's bounding box;
\* a marker has no bounds and a layer without positions has no corners,
\* both calls throw
boundsCenter(geometry) ==
    LET latlngs == LayerLatLngs(geometry.coordinates, Depth(geometry.type))
        lats == [i \in 1..Len(latlngs) |-> Fin(latlngs[i][2])]
        lngs == [i \in 1..Len(latlngs) |-> Fin(latlngs[i][1])]
    IN  IF geometry.type = "Point" \/ latlngs = <<>> THEN Throws
        ELSE At(JsDiv(JsAdd(MathMin(lats), MathMax(lats)), Fin(2)),
                JsDiv(JsAdd(MathMin(lngs), MathMax(lngs)), Fin(2)))

\* L.latLng(lat, lng) throws on NaN, and the catch falls back to the
\* bounds centre
latLngOrFallback(centroid, geometry) ==
    IF centroid.lat.k = "nan" \/ centroid.lng.k = "nan" THEN boundsCenter(geometry)
    ELSE At(centroid.lat, centroid.lng)

\* coords.reduce((acc, curr, i) => acc + (curr[0] * next[1] - next[0] * curr[1]), 0)
\* with next = coords[(i + 1) % coords.length], i counted from 1 here
RECURSIVE CrossSum(_, _)
CrossSum(coords, i) ==
    IF i > Len(coords) THEN 0
    ELSE LET curr == coords[i]
             next == coords[(i % Len(coords)) + 1]
         IN  (curr[1] * next[2] - next[1] * curr[2]) + CrossSum(coords, i + 1)

\* Math.abs(...) / 2
ApproximateArea(coords) == Ratio(Abs(CrossSum(coords, 1)), 2)

\* mutant: the first sub-polygon is kept whatever the areas
LargestPolygonFirst(polygons, i, largest) == polygons[1]

\* for (const polygon of polygons) if (area > maxArea) { ... }
RECURSIVE LargestPolygon(_, _, _)
LargestPolygon(polygons, i, largest) ==
    IF i > Len(polygons) THEN largest.polygon
    ELSE LET area == ApproximateArea(polygons[i][1])
         IN  LargestPolygon(polygons, i + 1,
                            IF JsLt(largest.maxArea, area)
                            THEN [polygon |-> polygons[i], maxArea |-> area]
                            ELSE largest)

\* the label position onEachFeature computes when labels are shown
labelPosition(geometry) ==
    CASE geometry.type = "Polygon" ->
           \* coordinates[0] undefined: coordinates.length throws
           IF geometry.coordinates = <<>> THEN boundsCenter(geometry)
           ELSE latLngOrFallback(Centroid(geometry.coordinates[1]), geometry)
      [] geometry.type = "MultiPolygon" ->
           LET polygons == geometry.coordinates
           IN  \* polygon[0] or largestPolygon undefined: a TypeError
               IF polygons = <<>> \/ \E i \in 1..Len(polygons) : polygons[i] = <<>>
               THEN boundsCenter(geometry)
               ELSE latLngOrFallback(
                        Centroid(LargestPolygon(polygons, 1,
                                     [polygon |-> polygons[1], maxArea |-> Fin(0)])[1]),
                        geometry)
      [] OTHER -> boundsCenter(geometry)

(***************************************************************************)
(* The configured map of Thailand and the point test.  Degrees are exact   *)
(* decimal fractions.                                                      *)
(***************************************************************************)
Degrees(tenThousandths) == Ratio(tenThousandths, 10000)

THAILAND_CONFIG ==
    [center |-> <<Degrees(137563), Degrees(1005018)>>,
     zoom |-> 6, minZoom |-> 5, maxZoom |-> 15,
     bounds |-> [north |-> Degrees(204634), south |-> Degrees(56126),
                 east |-> Degrees(1056369), west |-> Degrees(973758)]]

JsGe(a, b) == JsLe(b, a)

isPointInThailand(lat, lng) ==
    /\ JsGe(lat, Degrees(56100)) /\ JsLe(lat, Degrees(204600))
    /\ JsGe(lng, Degrees(973800)) /\ JsLe(lng, Degrees(1056400))

(***************************************************************************)
(* The configuration of the page (src/app/page.tsx) and its JSON text.  A  *)
(* text is a sequence of pieces: a piece is one character, or a word in    *)
(* which no quote and no backslash occurs (a key, a level name, true).     *)
(* areaColors is a JavaScript Map: its entries <<code, colour>> in         *)
(* insertion order.                                                        *)
(***************************************************************************)
Quote == "\""
Backslash == "\\"

\* map.get(key), or fallback where the map has no such key
RECURSIVE EntriesGet(_, _, _)
EntriesGet(entries, key, fallback) ==
    IF entries = <<>> THEN fallback
    ELSE IF Head(entries)[1] = key THEN Head(entries)[2]
    ELSE EntriesGet(Tail(entries), key, fallback)

EntriesHas(entries, key) == \E i \in 1..Len(entries) : entries[i][1] = key

\* map.set(key, value): a key the map has keeps its place
EntriesSet(entries, key, value) ==
    IF EntriesHas(entries, key)
    THEN [i \in 1..Len(entries) |->
            IF entries[i][1] = key THEN <<key, value>> ELSE entries[i]]
    ELSE Append(entries, <<key, value>>)

\* map.delete(key)
EntriesDelete(entries, key) == SelectSeq(entries, LAMBDA entry : entry[1] /= key)

\* new Map(pairs)
RECURSIVE NewMap(_, _)
NewMap(pairs, entries) ==
    IF pairs = <<>> THEN entries
    ELSE NewMap(Tail(pairs), EntriesSet(entries, Head(pairs)[1], Head(pairs)[2]))

\* JSON.stringify of a string: quotes and backslashes are escaped
RECURSIVE StringifyPieces(_)
StringifyPieces(string) ==
    IF string = <<>> THEN <<>>
    ELSE (IF Head(string) \in {Quote, Backslash}
          THEN <<Backslash, Head(string)>>
          ELSE <<Head(string)>>) \o StringifyPieces(Tail(string))

StringifyString(string) == <<Quote>> \o StringifyPieces(string) \o <<Quote>>

\* the texts of the elements of an array, separated by commas
RECURSIVE JoinTexts(_)
JoinTexts(texts) ==
    IF texts = <<>> THEN <<>>
    ELSE IF Len(texts) = 1 THEN texts[1]
    ELSE texts[1] \o <<",">> \o JoinTexts(Tail(texts))

StringifyArray(texts) == <<"[">> \o JoinTexts(texts) \o <<"]">>

StringifyStrings(strings) ==
    StringifyArray([i \in 1..Len(strings) |-> StringifyString(strings[i])])

StringifyBoolean(b) == IF b THEN <<"true">> ELSE <<"false">>

StringifyMember(key, text) == StringifyString(<<key>>) \o <<":">> \o text

\* JSON.stringify(config) of a MapConfig, its members in the order the
\* object literal has them
StringifyConfig(config) ==
    <<"{">> \o JoinTexts(<<
        StringifyMember("currentLevel", StringifyString(<<config.currentLevel>>)),
        StringifyMember("areaColors",
            StringifyArray([i \in 1..Len(config.areaColors) |->
                               StringifyStrings(config.areaColors[i])])),
        StringifyMember("selectedProvinces", StringifyStrings(config.selectedProvinces)),
        StringifyMember("selectedDistricts", StringifyStrings(config.selectedDistricts)),
        StringifyMember("borderColor", StringifyString(config.borderColor)),
        StringifyMember("showAreaNames", StringifyBoolean(config.showAreaNames))>>)
    \o <<"}">>

\* JSON.parse: a value is read as [t |-> its type, v |-> its content]; a
\* text that is no JSON value throws (ok is FALSE).  The texts read are
\* written by JSON.stringify: they have no blanks between their tokens.
JsonValue(type, content) == [t |-> type, v |-> content]
ParseThrows == [ok |-> FALSE, value |-> JsonValue("null", <<>>), next |-> 0]
ParseReturns(value, next) == [ok |-> TRUE, value |-> value, next |-> next]

\* mutant: a backslash is read as a character of the string like any other
RECURSIVE ParseStringRaw(_, _, _)
ParseStringRaw(text, i, acc) ==
    IF i > Len(text) THEN ParseThrows
    ELSE IF text[i] = Quote THEN ParseReturns(JsonValue("string", acc), i + 1)
    ELSE ParseStringRaw(text, i + 1, Append(acc, text[i]))

\* the characters of a string, from the one after its opening quote
RECURSIVE ParseString(_, _, _)
ParseString(text, i, acc) ==
    IF i > Len(text) THEN ParseThrows
    ELSE IF text[i] = Quote THEN ParseReturns(JsonValue("string", acc), i + 1)
    ELSE IF text[i] = Backslash
    THEN IF i + 1 <= Len(text) /\ text[i + 1] \in {Quote, Backslash}
         THEN ParseString(text, i + 2, Append(acc, text[i + 1]))
         ELSE ParseThrows
    ELSE ParseString(text, i + 1, Append(acc, text[i]))

RECURSIVE ParseValue(_, _)
RECURSIVE ParseElements(_, _, _)
RECURSIVE ParseMembers(_, _, _)

ParseValue(text, i) ==
    IF i > Len(text) THEN ParseThrows
    ELSE CASE text[i] = Quote -> ParseString(text, i + 1, <<>>)
           [] text[i] = "[" ->
                IF i + 1 <= Len(text) /\ text[i + 1] = "]"
                THEN ParseReturns(JsonValue("array", <<>>), i + 2)
                ELSE ParseElements(text, i + 1, <<>>)
           [] text[i] = "{" ->
                IF i + 1 <= Len(text) /\ text[i + 1] = "}"
                THEN ParseReturns(JsonValue("object", <<>>), i + 2)
                ELSE ParseMembers(text, i + 1, <<>>)
           [] text[i] = "true" -> ParseReturns(JsonValue("boolean", TRUE), i + 1)
           [] text[i] = "false" -> ParseReturns(JsonValue("boolean", FALSE), i + 1)
           [] text[i] = "null" -> ParseReturns(JsonValue("null", <<>>), i + 1)
           [] OTHER -> ParseThrows

\* the elements of an array, from the first one
ParseElements(text, i, acc) ==
    LET element == ParseValue(text, i)
    IN  IF ~element.ok \/ element.next > Len(text) THEN ParseThrows
        ELSE IF text[element.next] = ","
        THEN ParseElements(text, element.next + 1, Append(acc, element.value))
        ELSE IF text[element.next] = "]"
        THEN ParseReturns(JsonValue("array", Append(acc, element.value)),
                          element.next + 1)
        ELSE ParseThrows

\* the members <<key, value>> of an object, from the first one
ParseMembers(text, i, acc) ==
    IF i > Len(text) \/ text[i] /= Quote THEN ParseThrows
    ELSE LET key == ParseString(text, i + 1, <<>>)
         IN  IF ~key.ok \/ key.next > Len(text) \/ text[key.next] /= ":"
             THEN ParseThrows
             ELSE LET member == ParseValue(text, key.next + 1)
                  IN  IF ~member.ok \/ member.next > Len(text) THEN ParseThrows
                      ELSE IF text[member.next] = ","
                      THEN ParseMembers(text, member.next + 1,
                                        Append(acc, <<key.value.v, member.value>>))
                      ELSE IF text[member.next] = "}"
                      THEN ParseReturns(
                               JsonValue("object",
                                         Append(acc, <<key.value.v, member.value>>)),
                               member.next + 1)
                      ELSE ParseThrows

JsonParse(text) ==
    LET parsed == ParseValue(text, 1)
    IN  IF parsed.ok /\ parsed.next = Len(text) + 1 THEN parsed ELSE ParseThrows

\* object[key]: of members with the same key the last one counts
RECURSIVE GetMember(_, _, _)
GetMember(members, key, found) ==
    IF members = <<>> THEN found
    ELSE GetMember(Tail(members), key,
                   IF Head(members)[1] = <<key>> THEN Head(members)[2] ELSE found)

Member(object, key) == GetMember(object.v, key, JsonValue("undefined", <<>>))

\* the strings of an array of strings
Strings(array) == [i \in 1..Len(array.v) |-> array.v[i].v]

\* JSON.parse(text) as MapConfig, for the text of a MapConfig
AsMapConfig(object) ==
    [currentLevel |-> Member(object, "currentLevel").v[1],
     areaColors |->
        LET pairs == Member(object, "areaColors")
        IN  [i \in 1..Len(pairs.v) |-> Strings(pairs.v[i])],
     selectedProvinces |-> Strings(Member(object, "selectedProvinces")),
     selectedDistricts |-> Strings(Member(object, "selectedDistricts")),
     borderColor |-> Member(object, "borderColor").v,
     showAreaNames |-> Member(object, "showAreaNames").v]

\* String.prototype.split(separator), for a separator of one character
RECURSIVE Split(_, _, _, _)
Split(text, separator, current, parts) ==
    IF text = <<>> THEN Append(parts, current)
    ELSE IF Head(text) = separator
    THEN Split(Tail(text), separator, <<>>, Append(parts, current))
    ELSE Split(Tail(text), separator, Append(current, Head(text)), parts)

\* the fields of a CSV line: a quote opens or closes a quoted stretch, a
\* comma outside of one ends a field
RECURSIVE ParseFields(_, _, _, _)
ParseFields(line, current, inQuotes, fields) ==
    IF line = <<>> THEN Append(fields, current)
    ELSE IF Head(line) = Quote
    THEN ParseFields(Tail(line), current, ~inQuotes, fields)
    ELSE IF Head(line) = "," /\ ~inQuotes
    THEN ParseFields(Tail(line), <<>>, inQuotes, Append(fields, current))
    ELSE ParseFields(Tail(line), Append(current, Head(line)), inQuotes, fields)

\* the rows <<code, colour>> of the lines from line i on
RECURSIVE ParseRows(_, _, _)
ParseRows(lines, i, results) ==
    IF i > Len(lines) THEN results
    ELSE LET line == trim(lines[i])
             fields == ParseFields(line, <<>>, FALSE, <<>>)
             code == trim(fields[1])
             color == trim(fields[Len(fields)])
         IN  IF line /= <<>> /\ Len(fields) >= 3 /\ code /= <<>> /\ color /= <<>>
             THEN ParseRows(lines, i + 1, Append(results, <<code, color>>))
             ELSE ParseRows(lines, i + 1, results)

\* the header row is skipped
parseCSV(csvText) == ParseRows(Split(trim(csvText), "\n", <<>>, <<>>), 2, <<>>)

\* the Map importFromCSV resolves with
importFromCSV(text) == NewMap(parseCSV(text), <<>>)

(***************************************************************************)
(* GeoJSONDataManager state and its synchronous operations.                *)
(***************************************************************************)
\* mutant: the size is compared with one level less
isDataLoadedFour(d) == Cardinality(DOMAIN d) >= 4

isDataLoaded(d) == Cardinality(DOMAIN d) = 5

\* this.data.set(level, collection)
DataSet(d, level, collection) ==
    [l \in (DOMAIN d) \cup {level} |-> IF l = level THEN collection ELSE d[l]]

NoSearch == [called |-> FALSE, query |-> <<>>, limit |-> 0, result |-> <<>>]
NoStats == [called |-> FALSE, level |-> "provinces",
            result |-> [count |-> 0, totalArea |-> Fin(0), averageArea |-> Fin(0)]]

RECURSIVE StringsUpTo(_, _)
StringsUpTo(chars, n) ==
    IF n = 0 THEN {<<>>}
    ELSE LET shorter == StringsUpTo(chars, n - 1)
         IN  shorter \cup {Append(s, c) : s \in shorter, c \in chars}

QueryChars == {"a", "A", "b", " "}
Queries == StringsUpTo(QueryChars, MaxQueryLen)
Limits == (0..MaxLimit) \cup {DefaultLimit}

\* call slots of the style functions
NoRegions == [called |-> FALSE, regions |-> <<>>]
NoStyle == [called |-> FALSE, props |-> NoProps, level |-> "provinces",
            colorScheme |-> "monochrome", result |-> getDefaultStyle("monochrome")]
NoTooltip == [called |-> FALSE, props |-> NoProps, level |-> "provinces",
              result |-> createTooltipData(NoProps, "provinces")]
NoOverride == [called |-> FALSE, result |-> getHighlightStyle]

\* call slots of the geometry functions
NoGeometry == [type |-> "Polygon", coordinates |-> <<>>]
NoBounds == [called |-> FALSE, result |-> getFeatureBounds(NoGeometry)]
NoCenter == [called |-> FALSE, result |-> getFeatureCenter(NoGeometry)]
NoLabel == [called |-> FALSE, result |-> Throws]

\* new GeoJSONDataManager()
InitManager ==
    /\ data = << >>
    /\ searchIndex = << >>
    /\ nextDoc = 0
    /\ ops = << >>
    /\ failedSince = FALSE
    /\ lastSearch = NoSearch
    /\ lastStats = NoStats

\* new MapStyleManager()
InitStyle ==
    /\ regionColors = << >>
    /\ areaRange = [min |-> Fin(0), max |-> Fin(0)]
    /\ customColors = << >>
    /\ styleLog = << >>
    /\ lastRegions = NoRegions
    /\ lastStyle = NoStyle
    /\ lastTooltip = NoTooltip
    /\ lastOverride = NoOverride
    /\ lastCall = "none"

\* no geometry function has been called
NoGeometryCall ==
    /\ lastBounds = NoBounds
    /\ lastCenter = NoCenter
    /\ lastLabel = NoLabel

NoPoint == [called |-> FALSE, lat |-> Fin(0), lng |-> Fin(0), result |-> FALSE]

\* isPointInThailand has not been called
InitPoint == lastPoint = NoPoint

\* the state Home is mounted with, before its restore effect
DefaultConfig ==
    [currentLevel |-> "provinces", areaColors |-> <<>>, selectedProvinces |-> <<>>,
     selectedDistricts |-> <<>>, borderColor |-> <<"#000000">>,
     showAreaNames |-> TRUE]

defaultPalette == <<<<"#ff3b30">>, <<"#34c759">>, <<"#007aff">>, <<"#ffcc00">>, <<"#8e8e93">>>>

NoEvent == [name |-> "none", area |-> <<>>, file |-> <<>>]

\* Home and SimpleMap are mounted in a browser that stores no configuration
InitPage ==
    /\ currentLevel = DefaultConfig.currentLevel
    /\ areaColors = DefaultConfig.areaColors
    /\ selectedProvinces = DefaultConfig.selectedProvinces
    /\ selectedDistricts = DefaultConfig.selectedDistricts
    /\ borderColor = DefaultConfig.borderColor
    /\ showAreaNames = DefaultConfig.showAreaNames
    /\ isSaved = TRUE
    /\ selectedColor = defaultPalette[1]
    /\ areaColorsRef = DefaultConfig.areaColors
    /\ selectedColorRef = defaultPalette[1]
    /\ storage = <<>>
    /\ exportedFile = <<>>
    /\ reading = {}
    /\ lastEvent = NoEvent
    /\ origin = [exported |-> DefaultConfig, saved |-> DefaultConfig]

(***************************************************************************)
(* SimpleMap: the layers on the Leaflet map.  A layer is known by the      *)
(* loadLevelData() call that built it and by its kind.                     *)
(***************************************************************************)
NoLayer == [kind |-> "none", load |-> 0, level |-> "none", features |-> <<>>]

\* the props a render of SimpleMap hands to the functions it defines
MapProps(level, provinces, districts, names) ==
    [currentLevel |-> level, selectedProvinces |-> provinces,
     selectedDistricts |-> districts, showAreaNames |-> names]

\* Array.prototype.includes
Includes(list, x) == \E i \in 1..Len(list) : list[i] = x

\* what fetch('/data/<level>.geojson') and response.json() give: two areas
\* of each level, the second in another province and district
LevelFile(level) ==
    CASE level = "provinces" ->
           <<[NoProps EXCEPT !.pro_code = <<"10">>, !.pro_th = <<"a">>],
             [NoProps EXCEPT !.pro_code = <<"20">>, !.pro_th = <<"b">>]>>
      [] level = "districts" ->
           <<[NoProps EXCEPT !.pro_code = <<"10">>, !.amp_code = <<"1001">>,
                             !.amp_th = <<"c">>],
             [NoProps EXCEPT !.pro_code = <<"20">>, !.amp_code = <<"2001">>,
                             !.amp_th = <<"d">>]>>
      [] level = "subdistricts" ->
           <<[NoProps EXCEPT !.pro_code = <<"10">>, !.amp_code = <<"1001">>,
                             !.tam_code = <<"100101">>, !.tam_th = <<"e">>],
             [NoProps EXCEPT !.pro_code = <<"20">>, !.amp_code = <<"2001">>,
                             !.tam_code = <<"200101">>, !.tam_th = <<"f">>]>>
      [] OTHER -> <<>>

getAreaName(feature, level) ==
    CASE level = "provinces" -> feature.pro_th
      [] level = "districts" -> feature.amp_th
      [] level = "subdistricts" -> feature.tam_th
      [] OTHER -> <<>>

shouldShowLabel(props, level) ==
    IF ~props.showAreaNames THEN FALSE
    ELSE CASE level = "subdistricts" -> Len(props.selectedDistricts) > 0
           [] OTHER -> TRUE

\* the features displayAreas keeps of the fetched ones
FilteredData(props, features) ==
    LET byProvince ==
            IF props.currentLevel = "districts" /\ Len(props.selectedProvinces) > 0
            THEN SelectSeq(features,
                           LAMBDA f : Includes(props.selectedProvinces, f.pro_code))
            ELSE features
    IN  IF props.currentLevel = "subdistricts" /\ Len(props.selectedDistricts) > 0
        THEN SelectSeq(features,
                       LAMBDA f : Includes(props.selectedDistricts, f.amp_code))
        ELSE byProvince

\* the markers onEachFeature adds for the features of a layer, by their text
LabelMarkers(props, level, features) ==
    IF shouldShowLabel(props, level)
    THEN [i \in 1..Len(features) |-> getAreaName(features[i], level)]
    ELSE <<>>

\* the map as the functions below change it
MapState ==
    [layers |-> mapLayers, current |-> currentLayerRef, labels |-> labelsLayer,
     provinceBorders |-> provinceBordersRef, districtBorders |-> districtBordersRef]

\* displayAreas(geojsonData) of the render with these props, called by the
\* loadLevelData() call of this number
displayAreas(m, props, load, geojsonData) ==
    LET filteredData == FilteredData(props, geojsonData)
        layer == [kind |-> "areas", load |-> load, level |-> props.currentLevel,
                  features |-> filteredData]
    IN  [m EXCEPT !.layers = (@ \ {m.current}) \cup {layer},
                  !.labels = LabelMarkers(props, props.currentLevel, filteredData),
                  !.current = layer]

removeProvinceBorders(m) ==
    IF m.provinceBorders /= NoLayer
    THEN [m EXCEPT !.layers = @ \ {m.provinceBorders}, !.provinceBorders = NoLayer]
    ELSE m

removeDistrictBorders(m) ==
    IF m.districtBorders /= NoLayer
    THEN [m EXCEPT !.layers = @ \ {m.districtBorders}, !.districtBorders = NoLayer]
    ELSE m

\* loadProvinceBorders() after its fetch
loadProvinceBorders(m, props, load, provincesData) ==
    LET removed == removeProvinceBorders(m)
        provinceBordersLayer ==
            [kind |-> "provinceBorders", load |-> load, level |-> "provinces",
             features |->
                 IF Len(props.selectedProvinces) > 0
                 THEN SelectSeq(provincesData,
                                LAMBDA f : Includes(props.selectedProvinces, f.pro_code))
                 ELSE provincesData]
    IN  [removed EXCEPT !.layers = @ \cup {provinceBordersLayer},
                        !.provinceBorders = provinceBordersLayer]

\* loadDistrictBorders() after its fetch
loadDistrictBorders(m, props, load, districtsData) ==
    LET removed == removeDistrictBorders(m)
        districtBordersLayer ==
            [kind |-> "districtBorders", load |-> load, level |-> "districts",
             features |->
                 IF Len(props.selectedDistricts) > 0
                 THEN SelectSeq(districtsData,
                                LAMBDA f : Includes(props.selectedDistricts, f.amp_code))
                 ELSE districtsData]
    IN  [removed EXCEPT !.layers = @ \cup {districtBordersLayer},
                        !.districtBorders = districtBordersLayer]

\* the effect on [showAreaNames], run by the render with these props
UpdateLabels(m, props) ==
    IF m.current = NoLayer THEN m
    ELSE IF props.showAreaNames
         THEN [m EXCEPT !.labels =
                   LabelMarkers(props, props.currentLevel, m.current.features)]
         ELSE [m EXCEPT !.labels = <<>>]

\* SimpleMap is mounted: the map and its empty labels layer are created and
\* the effect on [currentLevel, selectedProvinces, selectedDistricts] has
\* called loadLevelData(), whose fetch is pending
InitMap ==
    /\ mapLayers = {}
    /\ currentLayerRef = NoLayer
    /\ labelsLayer = <<>>
    /\ provinceBordersRef = NoLayer
    /\ districtBordersRef = NoLayer
    /\ levelLoads = <<[props |-> MapProps(DefaultConfig.currentLevel,
                                          DefaultConfig.selectedProvinces,
                                          DefaultConfig.selectedDistricts,
                                          DefaultConfig.showAreaNames),
                       pc |-> "level"]>>

Init ==
    /\ InitManager
    /\ InitStyle
    /\ featureGeometry = NoGeometry
    /\ NoGeometryCall
    /\ InitPoint
    /\ InitPage
    /\ InitMap

\* a step of the data manager leaves the style manager and the geometry
\* functions alone
OnlyManager == UNCHANGED <<styleVars, geomVars, pointVars, pageVars, mapVars>>

\* No call result is held: the last operation on the manager was not a call.
\* search and getStatistics write nothing, so a call made right after another
\* call reaches no state that the call made first does not reach.
NoCallHeld == ~lastSearch.called /\ ~lastStats.called

\* one level task of loadGeoJSONData run to its end on a good response:
\* data.set(level, data); buildSearchIndex(level, data)
StoreLevel(level, doc) ==
    /\ nextDoc < MaxStores
    /\ LET collection == ParseDoc(nextDoc + 1, doc)
       IN  /\ data' = DataSet(data, level, collection)
           /\ searchIndex' = buildSearchIndex(searchIndex, level, collection.features)
    /\ nextDoc' = nextDoc + 1
    /\ lastSearch' = NoSearch
    /\ lastStats' = NoStats
    /\ UNCHANGED <<ops, failedSince>>

Search(query, limit) ==
    /\ NoCallHeld
    /\ lastSearch' = [called |-> TRUE, query |-> query, limit |-> limit,
                      result |-> search(searchIndex, query, limit)]
    /\ UNCHANGED <<data, searchIndex, nextDoc, ops, failedSince, lastStats>>

GetStatistics(level) ==
    /\ NoCallHeld
    /\ lastStats' = [called |-> TRUE, level |-> level,
                     result |-> getStatistics(data, level)]
    /\ UNCHANGED <<data, searchIndex, nextDoc, ops, failedSince, lastSearch>>

NextSearch ==
    \/ \E level \in LevelSet : \E doc \in ServerDocs(level) :
          StoreLevel(level, doc) /\ OnlyManager
    \/ \E query \in Queries : \E limit \in Limits :
          Search(query, limit) /\ OnlyManager
    \/ \E level \in LevelSet : GetStatistics(level) /\ OnlyManager

SpecSearch == Init /\ [][NextSearch]_vars

(***************************************************************************)
(* loadGeoJSONData(): five level tasks started together, joined by         *)
(* Promise.all.  A task awaits its fetch and then response.json(); between *)
(* the two it changes nothing, so the model takes both continuations of a  *)
(* good response as one step (LevelLoaded) and gives each way to fail its  *)
(* own step.  A task that settles and the promise reactions that follow it *)
(* run before any other network event is handled, so each step includes    *)
(* the settling of the call's promise.  A caller awaits a call and its     *)
(* tasks before it calls again: calls follow one another.                  *)
(***************************************************************************)
NewTask == [status |-> "pending", doc |-> 0]

\* mutant: the call waits for every task and fulfils whatever their fate
\* (Promise.allSettled for Promise.all)
PromiseAllSettled(outcome, task) ==
    IF outcome /= "pending" THEN outcome
    ELSE IF \A l \in LevelSet : task[l].status /= "pending" THEN "fulfilled"
    ELSE "pending"

\* Promise.all(loadPromises): rejected by the first task that fails,
\* fulfilled once every task has run to its end, settled only once
PromiseAll(outcome, task) ==
    IF outcome /= "pending" THEN outcome
    ELSE IF \E l \in LevelSet : task[l].status = "failed" THEN "rejected"
    ELSE IF \A l \in LevelSet : task[l].status = "done" THEN "fulfilled"
    ELSE "pending"

\* a task of call o has settled, and with it maybe the call; a task that
\* fails opens a span that only a call that fulfils ends (failedSince)
Settled(o, task) ==
    LET outcome == PromiseAll(ops[o].outcome, task)
    IN  /\ ops' = [ops EXCEPT ![o] = [task |-> task, outcome |-> outcome]]
        /\ failedSince' =
              IF \E l \in LevelSet :
                    task[l].status = "failed" /\ ops[o].task[l].status /= "failed"
              THEN TRUE
              ELSE IF outcome = "fulfilled" /\ ops[o].outcome = "pending" THEN FALSE
              ELSE failedSince

AllTasksSettled(op) == \A l \in LevelSet : op.task[l].status /= "pending"

\* loadGeoJSONData() is called: levels.map starts the five fetches
StartLoad ==
    /\ Len(ops) < MaxLoads
    /\ \A o \in 1..Len(ops) : AllTasksSettled(ops[o])
    /\ ops' = Append(ops, [task |-> [l \in LevelSet |-> NewTask], outcome |-> "pending"])
    /\ UNCHANGED <<data, searchIndex, nextDoc, failedSince, lastSearch, lastStats>>

\* the response is ok and response.json() resolves:
\* data.set(level, data); buildSearchIndex(level, data)
LevelLoaded(o, level) ==
    /\ ops[o].task[level].status = "pending"
    /\ LET collection == ParseDoc(nextDoc + 1, ServerFile(level))
       IN  /\ data' = DataSet(data, level, collection)
           /\ searchIndex' = buildSearchIndex(searchIndex, level, collection.features)
    /\ nextDoc' = nextDoc + 1
    /\ Settled(o, [ops[o].task EXCEPT ![level] = [status |-> "done", doc |-> nextDoc + 1]])
    /\ UNCHANGED <<lastSearch, lastStats>>

\* mutant: the response is stored before it is checked, so a task that
\* fails leaves a collection without features behind
TaskFailedAfterStore(o, level) ==
    /\ ops[o].task[level].status = "pending"
    /\ data' = DataSet(data, level, ParseDoc(nextDoc + 1, <<>>))
    /\ nextDoc' = nextDoc + 1
    /\ Settled(o, [ops[o].task EXCEPT ![level].status = "failed"])
    /\ UNCHANGED <<searchIndex, lastSearch, lastStats>>

\* the task throws before data.set: caught, logged and thrown again
TaskFailed(o, level) ==
    /\ ops[o].task[level].status = "pending"
    /\ Settled(o, [ops[o].task EXCEPT ![level].status = "failed"])
    /\ UNCHANGED <<data, searchIndex, nextDoc, lastSearch, lastStats>>

\* fetch rejects (network error)
FetchError(o, level) == TaskFailed(o, level)

\* fetch resolves with !response.ok
FetchNotOk(o, level) == TaskFailed(o, level)

\* response.json() rejects
ParseFail(o, level) == TaskFailed(o, level)

NextLoad ==
    \/ StartLoad /\ OnlyManager
    \/ \E o \in 1..Len(ops) : \E level \in LevelSet :
          \/ LevelLoaded(o, level) /\ OnlyManager
          \/ FetchError(o, level) /\ OnlyManager
          \/ FetchNotOk(o, level) /\ OnlyManager
          \/ ParseFail(o, level) /\ OnlyManager

SpecLoad == Init /\ [][NextLoad]_vars

(***************************************************************************)
(* MapStyleManager: its three caches are written by separate methods and   *)
(* read by getFeatureStyle, so each cache has a specification of its own   *)
(* in which the other two keep the value the constructor gave them.        *)
(***************************************************************************)
MaxRegions == 3     \* longest list of the short region names
MaxFeatures == 2    \* most features handed to updateAreaRange
MaxCustomOps == 3   \* setCustomColor / clearCustomColors calls in one behaviour

\* No result of a style call is held.  getFeatureStyle and createTooltipData
\* write nothing, so a behaviour that goes on after one of them reaches no
\* cache that a behaviour without the call does not reach: a call is the
\* last step of a behaviour.
NoStyleCallHeld == ~lastStyle.called /\ ~lastTooltip.called /\ ~lastOverride.called

\* a step on the style manager leaves everything else alone
OnlyStyle == UNCHANGED <<dmVars, geomVars, pointVars, pageVars, mapVars>>

RegionNames == {<<"n">>, <<"s">>, <<"c">>}

\* two names more than the palette has colours
LongRegions == [i \in 1..(Len(colors) + 2) |-> TwoDigits(i)]

RegionLists ==
    StringsUpTo(RegionNames, MaxRegions)
        \cup {LongRegions, LongRegions \o <<TwoDigits(1)>>}

\* properties of features with and without region names
RegionFeatures ==
    {RegionProps(royin, nesdb, 1) :
        royin \in {<<>>, <<"n">>, <<"s">>, TwoDigits(11)},
        nesdb \in {<<>>, <<"c">>, <<"x">>}}

\* the values area_sqkm and perimeter are given
AreaValues ==
    {JsonNumber(5), JsonNumber(9), JsonNumber(0), JsonNull, JsonUndefined,
     JsonBoolean(TRUE), JsonString(<<"7">>), JsonString(<<"x">>),
     JsonString(InfinityLiteral), JsonHuge}

AreaFeature(area, perimeter) ==
    [ProvinceProps(TwoDigits(10), <<"a">>, <<"A">>, 0)
        EXCEPT !.area_sqkm = area, !.perimeter = perimeter]

AreaFeatures == {AreaFeature(area, JsonUndefined) : area \in AreaValues}
TooltipFeatures == {AreaFeature(area, perimeter) : area, perimeter \in AreaValues}

\* properties of features with different codes and region names
IdFeature(pro, amp, tam, royin, nesdb) ==
    [NoProps EXCEPT !.pro_code = pro, !.amp_code = amp, !.tam_code = tam,
                    !.reg_royin = royin, !.reg_nesdb = nesdb]

IdFeatures ==
    {IdFeature(TwoDigits(10), TwoDigits(10) \o TwoDigits(1), <<"n">>, <<"n">>, <<"c">>),
     IdFeature(TwoDigits(20), TwoDigits(20) \o TwoDigits(1), TwoDigits(20), <<>>, <<"c">>),
     IdFeature(TwoDigits(10), TwoDigits(20), TwoDigits(10), <<"s">>, <<>>),
     IdFeature(TwoDigits(30), TwoDigits(10), TwoDigits(20), <<>>, <<>>)}

CustomIds == {TwoDigits(10), TwoDigits(20), <<"n">>, Unknown}
CustomColors == {"#ff0000", "#00ff00"}

UpdateRegionColors(regions) ==
    /\ NoStyleCallHeld
    /\ regionColors' = generateRegionColors(regions)
    /\ lastRegions' = [called |-> TRUE, regions |-> regions]
    /\ lastCall' = "updateRegionColors"
    /\ UNCHANGED <<lastStyle, lastTooltip, lastOverride>>
    /\ UNCHANGED <<areaRange, customColors, styleLog>>
    /\ OnlyStyle

UpdateAreaRange(features) ==
    /\ NoStyleCallHeld
    /\ areaRange' = updateAreaRange(features)
    /\ lastCall' = "updateAreaRange"
    /\ UNCHANGED <<lastStyle, lastTooltip, lastOverride>>
    /\ UNCHANGED <<regionColors, customColors, styleLog, lastRegions>>
    /\ OnlyStyle

SetCustomColor(featureId, color) ==
    /\ NoStyleCallHeld
    /\ Len(styleLog) < MaxCustomOps
    /\ customColors' = MapSet(customColors, featureId, color)
    /\ styleLog' = Append(styleLog, [op |-> "set", id |-> featureId, color |-> color])
    /\ lastCall' = "setCustomColor"
    /\ UNCHANGED <<lastStyle, lastTooltip, lastOverride>>
    /\ UNCHANGED <<regionColors, areaRange, lastRegions>>
    /\ OnlyStyle

\* mutant: the colours are cleared by starting over with the caches of a
\* new manager
ClearCustomColorsReset ==
    /\ NoStyleCallHeld
    /\ Len(styleLog) < MaxCustomOps
    /\ customColors' = << >>
    /\ regionColors' = << >>
    /\ areaRange' = [min |-> Fin(0), max |-> Fin(0)]
    /\ styleLog' = Append(styleLog, [op |-> "clear", id |-> <<>>, color |-> ""])
    /\ lastCall' = "clearCustomColors"
    /\ UNCHANGED <<lastStyle, lastTooltip, lastOverride, lastRegions>>
    /\ OnlyStyle

ClearCustomColors ==
    /\ NoStyleCallHeld
    /\ Len(styleLog) < MaxCustomOps
    /\ customColors' = << >>
    /\ styleLog' = Append(styleLog, [op |-> "clear", id |-> <<>>, color |-> ""])
    /\ lastCall' = "clearCustomColors"
    /\ UNCHANGED <<lastStyle, lastTooltip, lastOverride>>
    /\ UNCHANGED <<regionColors, areaRange, lastRegions>>
    /\ OnlyStyle

GetFeatureStyle(props, level, colorScheme) ==
    /\ NoStyleCallHeld
    /\ lastStyle' = [called |-> TRUE, props |-> props, level |-> level,
                     colorScheme |-> colorScheme,
                     result |-> getFeatureStyle(regionColors, areaRange, customColors,
                                                props, level, colorScheme)]
    /\ lastCall' = "getFeatureStyle"
    /\ UNCHANGED <<regionColors, areaRange, customColors, styleLog, lastRegions,
                   lastTooltip, lastOverride>>
    /\ OnlyStyle

CreateTooltipData(props, level) ==
    /\ NoStyleCallHeld
    /\ lastTooltip' = [called |-> TRUE, props |-> props, level |-> level,
                       result |-> createTooltipData(props, level)]
    /\ lastCall' = "createTooltipData"
    /\ UNCHANGED <<regionColors, areaRange, customColors, styleLog, lastRegions,
                   lastStyle, lastOverride>>
    /\ OnlyStyle

GetHighlightStyle ==
    /\ NoStyleCallHeld
    /\ lastOverride' = [called |-> TRUE, result |-> getHighlightStyle]
    /\ lastCall' = "getHighlightStyle"
    /\ UNCHANGED <<regionColors, areaRange, customColors, styleLog, lastRegions,
                   lastStyle, lastTooltip>>
    /\ OnlyStyle

GetSelectedStyle ==
    /\ NoStyleCallHeld
    /\ lastOverride' = [called |-> TRUE, result |-> getSelectedStyle]
    /\ lastCall' = "getSelectedStyle"
    /\ UNCHANGED <<regionColors, areaRange, customColors, styleLog, lastRegions,
                   lastStyle, lastTooltip>>
    /\ OnlyStyle

NextRegionColors ==
    \/ \E regions \in RegionLists : UpdateRegionColors(regions)
    \/ \E props \in RegionFeatures : \E level \in LevelSet : \E scheme \in Schemes :
          GetFeatureStyle(props, level, scheme)

SpecRegionColors == Init /\ [][NextRegionColors]_vars

NextAreaColors ==
    \/ \E features \in StringsUpTo(AreaFeatures, MaxFeatures) : UpdateAreaRange(features)
    \/ \E props \in AreaFeatures : \E level \in LevelSet : \E scheme \in Schemes :
          GetFeatureStyle(props, level, scheme)
    \/ \E props \in TooltipFeatures : \E level \in LevelSet :
          CreateTooltipData(props, level)

SpecAreaColors == Init /\ [][NextAreaColors]_vars

NextCustomColors ==
    \/ \E featureId \in CustomIds : \E color \in CustomColors :
          SetCustomColor(featureId, color)
    \/ ClearCustomColors
    \/ \E props \in IdFeatures : \E level \in LevelSet : \E scheme \in Schemes :
          GetFeatureStyle(props, level, scheme)

SpecCustomColors == Init /\ [][NextCustomColors]_vars

(***************************************************************************)
(* The three caches together with the data manager: every method of the    *)
(* style manager, the two override styles, and the storing of a level,     *)
(* search and getStatistics of the data manager, on few inputs each.  A    *)
(* call that returns a value is the last step of a behaviour.              *)
(***************************************************************************)
FrameRegionLists == {<<>>, <<<<"n">>>>, <<<<"n">>, <<"s">>>>}
FrameAreaLists ==
    {<<>>, <<AreaFeature(JsonNumber(5), JsonUndefined)>>,
     <<AreaFeature(JsonNumber(5), JsonUndefined),
       AreaFeature(JsonNumber(9), JsonUndefined)>>}
FrameQueries == {<<"a">>, <<"b">>}

NextStyleFrame ==
    \/ \E regions \in FrameRegionLists : NoCallHeld /\ UpdateRegionColors(regions)
    \/ \E features \in FrameAreaLists : NoCallHeld /\ UpdateAreaRange(features)
    \/ \E color \in CustomColors : NoCallHeld /\ SetCustomColor(TwoDigits(10), color)
    \/ NoCallHeld /\ ClearCustomColors
    \/ \E props \in IdFeatures : \E scheme \in Schemes :
          NoCallHeld /\ GetFeatureStyle(props, "provinces", scheme)
    \/ NoCallHeld /\ GetHighlightStyle
    \/ NoCallHeld /\ GetSelectedStyle
    \/ \E doc \in ServerDocs("provinces") :
          NoStyleCallHeld /\ NoCallHeld /\ StoreLevel("provinces", doc) /\ OnlyManager
    \/ \E query \in FrameQueries :
          NoStyleCallHeld /\ Search(query, DefaultLimit) /\ OnlyManager
    \/ NoStyleCallHeld /\ GetStatistics("provinces") /\ OnlyManager

SpecStyleFrame == Init /\ [][NextStyleFrame]_vars

(***************************************************************************)
(* The geometry functions are pure: a behaviour starts with the geometry   *)
(* of one feature and applies getFeatureBounds, getFeatureCenter and the   *)
(* label placement of onEachFeature to it.  Rings are closed (the last     *)
(* position repeats the first), as GeoJSON has them.                       *)
(***************************************************************************)
MaxCoord == 2       \* largest coordinate of a position
MaxVertices == 4    \* most vertices of a ring, its closing position not counted

\* the positions of a grid, and one position with an altitude
Positions == {<<x, y>> : x, y \in 0..MaxCoord} \cup {<<1, MaxCoord, 7>>}

Close(vertices) == IF vertices = <<>> THEN <<>> ELSE Append(vertices, vertices[1])

Rings == {Close(vertices) : vertices \in StringsUpTo(Positions, MaxVertices)}

\* the sub-polygons of a MultiPolygon: triangles, some of them without
\* area, and a sub-polygon without rings
Corners == {<<0, 0>>, <<MaxCoord, 0>>, <<0, MaxCoord>>, <<1, 0>>, <<1, 1>>}
SubPolygons == {<<Close(<<a, b, c>>)>> : a, b, c \in Corners} \cup {<<>>}

InitGeometry ==
    /\ InitManager
    /\ InitStyle
    /\ NoGeometryCall
    /\ InitPoint
    /\ InitPage
    /\ InitMap
    /\ \/ \E position \in Positions \cup {<<>>} :
             featureGeometry = [type |-> "Point", coordinates |-> position]
       \/ \E type \in {"LineString", "MultiPoint"} :
          \E line \in StringsUpTo(Positions, 2) :
             featureGeometry = [type |-> type, coordinates |-> line]
       \/ \E ring \in Rings :
             featureGeometry = [type |-> "Polygon", coordinates |-> <<ring>>]
       \/ featureGeometry = [type |-> "Polygon", coordinates |-> <<>>]
       \/ \E polygons \in StringsUpTo(SubPolygons, 2) :
             featureGeometry = [type |-> "MultiPolygon", coordinates |-> polygons]

\* a geometry function leaves the managers alone
OnlyGeometry ==
    UNCHANGED <<dmVars, styleVars, featureGeometry, pointVars, pageVars, mapVars>>

GetFeatureBounds ==
    /\ ~lastBounds.called
    /\ lastBounds' = [called |-> TRUE, result |-> getFeatureBounds(featureGeometry)]
    /\ UNCHANGED <<lastCenter, lastLabel>>
    /\ OnlyGeometry

GetFeatureCenter ==
    /\ ~lastCenter.called
    /\ lastCenter' = [called |-> TRUE, result |-> getFeatureCenter(featureGeometry)]
    /\ UNCHANGED <<lastBounds, lastLabel>>
    /\ OnlyGeometry

\* onEachFeature with labels shown: the label marker is placed
PlaceLabel ==
    /\ ~lastLabel.called
    /\ lastLabel' = [called |-> TRUE, result |-> labelPosition(featureGeometry)]
    /\ UNCHANGED <<lastBounds, lastCenter>>
    /\ OnlyGeometry

NextGeometry ==
    \/ GetFeatureBounds
    \/ GetFeatureCenter
    \/ PlaceLabel

SpecGeometry == InitGeometry /\ [][NextGeometry]_vars

(***************************************************************************)
(* isPointInThailand is pure: a behaviour is one call on a point near the  *)
(* edges of the country, or on a point that is not a finite number.        *)
(***************************************************************************)
Latitudes ==
    {Degrees(t) : t \in {56099, 56100, 56110, 56126, 56127, 130000,
                         204600, 204601, 204634, 204635}} \cup {NaN, Inf(1)}
Longitudes ==
    {Degrees(t) : t \in {973757, 973758, 973799, 973800, 1000000,
                         1056369, 1056370, 1056400, 1056401}} \cup {NaN, Inf(-1)}

IsPointInThailand(lat, lng) ==
    /\ ~lastPoint.called
    /\ lastPoint' = [called |-> TRUE, lat |-> lat, lng |-> lng,
                     result |-> isPointInThailand(lat, lng)]
    /\ UNCHANGED <<dmVars, styleVars, geomVars, pageVars, mapVars>>

NextPoint == \E lat \in Latitudes : \E lng \in Longitudes : IsPointInThailand(lat, lng)

SpecPoint == Init /\ [][NextPoint]_vars

(***************************************************************************)
(* Home (src/app/page.tsx) with the click handlers of SimpleMap.  A step   *)
(* is one event handler, or the continuation of an import once its file    *)
(* is read, together with the render and the effects it causes: React      *)
(* applies the state updates of a handler together, and has rendered and   *)
(* run the effects that copy the props into the refs of SimpleMap before   *)
(* the browser hands it the next event.                                    *)
(***************************************************************************)
MaxReads == 1       \* files being read for an import at a time

OnlyPage == UNCHANGED <<dmVars, styleVars, geomVars, pointVars>>

\* the MapConfig that handleSaveConfig and exportConfig build
Config ==
    [currentLevel |-> currentLevel, areaColors |-> areaColors,
     selectedProvinces |-> selectedProvinces, selectedDistricts |-> selectedDistricts,
     borderColor |-> borderColor, showAreaNames |-> showAreaNames]

\* the six setters called with the members of a MapConfig
SetConfig(config) ==
    /\ currentLevel' = config.currentLevel
    /\ areaColors' = NewMap(config.areaColors, <<>>)
    /\ selectedProvinces' = config.selectedProvinces
    /\ selectedDistricts' = config.selectedDistricts
    /\ borderColor' = config.borderColor
    /\ showAreaNames' = config.showAreaNames

\* the effects of SimpleMap that copy selectedColor and areaColors into refs
RefsFollow ==
    /\ selectedColorRef' = selectedColor'
    /\ areaColorsRef' = areaColors'

Event(name, area, file) == lastEvent' = [name |-> name, area |-> area, file |-> file]

\* mutant: the click starts from an empty Map, not from a copy of the ref
ClickFresh(areaCode) ==
    /\ areaColors' = EntriesSet(<<>>, areaCode, selectedColorRef)
    /\ isSaved' = FALSE
    /\ Event("click", areaCode, <<>>)
    /\ UNCHANGED <<currentLevel, selectedProvinces, selectedDistricts, borderColor,
                   showAreaNames, selectedColor, storage, exportedFile, reading, origin>>
    /\ RefsFollow
    /\ OnlyPage

\* layer.on('click') of the feature with this area code, and onAreaColorsChange
Click(areaCode) ==
    /\ areaColors' = EntriesSet(areaColorsRef, areaCode, selectedColorRef)
    /\ isSaved' = FALSE
    /\ Event("click", areaCode, <<>>)
    /\ UNCHANGED <<currentLevel, selectedProvinces, selectedDistricts, borderColor,
                   showAreaNames, selectedColor, storage, exportedFile, reading, origin>>
    /\ RefsFollow
    /\ OnlyPage

\* layer.on('dblclick')
DblClick(areaCode) ==
    /\ areaColors' = EntriesDelete(areaColorsRef, areaCode)
    /\ isSaved' = FALSE
    /\ Event("dblclick", areaCode, <<>>)
    /\ UNCHANGED <<currentLevel, selectedProvinces, selectedDistricts, borderColor,
                   showAreaNames, selectedColor, storage, exportedFile, reading, origin>>
    /\ RefsFollow
    /\ OnlyPage

\* a colour of the palette is clicked
SelectColor(color) ==
    /\ selectedColor' = color
    /\ isSaved' = FALSE
    /\ Event("selectColor", <<>>, <<>>)
    /\ UNCHANGED <<configVars, storage, exportedFile, reading, origin>>
    /\ RefsFollow
    /\ OnlyPage

\* mutant: the colours are cleared and the configuration still counts as saved
handleClearColorsKeepsSaved ==
    /\ areaColors' = <<>>
    /\ Event("clearColors", <<>>, <<>>)
    /\ UNCHANGED <<currentLevel, selectedProvinces, selectedDistricts, borderColor,
                   showAreaNames, selectedColor, storage, exportedFile, reading, origin,
                   isSaved>>
    /\ RefsFollow
    /\ OnlyPage

handleClearColors ==
    /\ areaColors' = <<>>
    /\ isSaved' = FALSE
    /\ Event("clearColors", <<>>, <<>>)
    /\ UNCHANGED <<currentLevel, selectedProvinces, selectedDistricts, borderColor,
                   showAreaNames, selectedColor, storage, exportedFile, reading, origin>>
    /\ RefsFollow
    /\ OnlyPage

\* the save button, disabled while isSaved
handleSaveConfig ==
    /\ ~isSaved
    /\ storage' = StringifyConfig(Config)
    /\ isSaved' = TRUE
    /\ origin' = [origin EXCEPT !.saved = Config]
    /\ Event("save", <<>>, <<>>)
    /\ UNCHANGED <<configVars, selectedColor, exportedFile, reading>>
    /\ RefsFollow
    /\ OnlyPage

handleExport ==
    /\ exportedFile' = StringifyConfig(Config)
    /\ origin' = [origin EXCEPT !.exported = Config]
    /\ Event("export", <<>>, <<>>)
    /\ UNCHANGED <<configVars, isSaved, selectedColor, storage, reading>>
    /\ RefsFollow
    /\ OnlyPage

\* a file is chosen for an import: its FileReader starts
StartImport(kind, file) ==
    /\ Cardinality(reading) < MaxReads
    /\ reading' = reading \cup {[kind |-> kind, text |-> file]}
    /\ Event(kind, <<>>, file)
    /\ UNCHANGED <<configVars, isSaved, selectedColor, storage, exportedFile, origin>>
    /\ RefsFollow
    /\ OnlyPage

handleJSONImport(file) == StartImport("startJSONImport", file)

handleCSVImport(file) == StartImport("startCSVImport", file)

\* the file is read: JSON.parse throws and nothing is set, or the six
\* setters are called with the members of the configuration read
JSONImported(file) ==
    /\ [kind |-> "startJSONImport", text |-> file] \in reading
    /\ reading' = reading \ {[kind |-> "startJSONImport", text |-> file]}
    /\ LET parsed == JsonParse(file)
       IN  IF parsed.ok
           THEN /\ SetConfig(AsMapConfig(parsed.value))
                /\ isSaved' = FALSE
                /\ Event("JSONImport", <<>>, file)
           ELSE /\ UNCHANGED <<configVars, isSaved>>
                /\ Event("JSONImportFailed", <<>>, file)
    /\ UNCHANGED <<selectedColor, storage, exportedFile, origin>>
    /\ RefsFollow
    /\ OnlyPage

\* the file is read: its colours are merged into areaColors
CSVImported(file) ==
    /\ [kind |-> "startCSVImport", text |-> file] \in reading
    /\ reading' = reading \ {[kind |-> "startCSVImport", text |-> file]}
    /\ areaColors' = NewMap(importFromCSV(file), areaColors)
    /\ isSaved' = FALSE
    /\ Event("CSVImport", <<>>, file)
    /\ UNCHANGED <<currentLevel, selectedProvinces, selectedDistricts, borderColor,
                   showAreaNames, selectedColor, storage, exportedFile, origin>>
    /\ RefsFollow
    /\ OnlyPage

\* prev.includes(code) ? prev.filter(c => c !== code) : [...prev, code]
Toggle(prev, code) ==
    IF \E i \in 1..Len(prev) : prev[i] = code
    THEN SelectSeq(prev, LAMBDA c : c /= code)
    ELSE Append(prev, code)

\* handleProvinceToggle, handleSelectAll and handleClearSelection set the
\* province filter
SetSelectedProvinces(name, selection) ==
    /\ selectedProvinces' = selection
    /\ isSaved' = FALSE
    /\ Event(name, <<>>, <<>>)
    /\ UNCHANGED <<currentLevel, areaColors, selectedDistricts, borderColor,
                   showAreaNames, selectedColor, storage, exportedFile, reading, origin>>
    /\ RefsFollow
    /\ OnlyPage

handleProvinceToggle(provinceCode) ==
    SetSelectedProvinces("provinceToggle", Toggle(selectedProvinces, provinceCode))

handleSelectAll(filteredProvinces) ==
    SetSelectedProvinces("selectAll", filteredProvinces)

handleClearSelection == SetSelectedProvinces("clearSelection", <<>>)

\* handleDistrictToggle, handleSelectAllDistricts and
\* handleClearDistrictSelection set the district filter
SetSelectedDistricts(name, selection) ==
    /\ selectedDistricts' = selection
    /\ isSaved' = FALSE
    /\ Event(name, <<>>, <<>>)
    /\ UNCHANGED <<currentLevel, areaColors, selectedProvinces, borderColor,
                   showAreaNames, selectedColor, storage, exportedFile, reading, origin>>
    /\ RefsFollow
    /\ OnlyPage

handleDistrictToggle(districtCode) ==
    SetSelectedDistricts("districtToggle", Toggle(selectedDistricts, districtCode))

handleSelectAllDistricts(filteredDistricts) ==
    SetSelectedDistricts("selectAllDistricts", filteredDistricts)

handleClearDistrictSelection == SetSelectedDistricts("clearDistrictSelection", <<>>)

\* the level selector changes
SelectLevel(level) ==
    /\ currentLevel' = level
    /\ isSaved' = FALSE
    /\ Event("selectLevel", <<>>, <<>>)
    /\ UNCHANGED <<areaColors, selectedProvinces, selectedDistricts, borderColor,
                   showAreaNames, selectedColor, storage, exportedFile, reading, origin>>
    /\ RefsFollow
    /\ OnlyPage

\* the colour input of the border changes
SetBorderColor(color) ==
    /\ borderColor' = color
    /\ isSaved' = FALSE
    /\ Event("borderColor", <<>>, <<>>)
    /\ UNCHANGED <<currentLevel, areaColors, selectedProvinces, selectedDistricts,
                   showAreaNames, selectedColor, storage, exportedFile, reading, origin>>
    /\ RefsFollow
    /\ OnlyPage

\* the button that shows or hides the area names
ToggleAreaNames ==
    /\ showAreaNames' = ~showAreaNames
    /\ isSaved' = FALSE
    /\ Event("toggleAreaNames", <<>>, <<>>)
    /\ UNCHANGED <<currentLevel, areaColors, selectedProvinces, selectedDistricts,
                   borderColor, selectedColor, storage, exportedFile, reading, origin>>
    /\ RefsFollow
    /\ OnlyPage

\* getStoredMapConfig(): null if there is no item or JSON.parse throws
getStoredMapConfig ==
    IF storage /= <<>> /\ JsonParse(storage).ok
    THEN [found |-> TRUE, config |-> AsMapConfig(JsonParse(storage).value)]
    ELSE [found |-> FALSE, config |-> DefaultConfig]

\* the page is loaded again: Home is mounted with its default state and its
\* restore effect sets what localStorage holds; the selected colour is
\* stored whenever it is selected, and comes back as it was
Reload ==
    /\ SetConfig(getStoredMapConfig.config)
    /\ isSaved' = TRUE
    /\ reading' = {}
    /\ Event("reload", <<>>, <<>>)
    /\ UNCHANGED <<selectedColor, storage, exportedFile, origin>>
    /\ RefsFollow
    /\ OnlyPage

\* the layers of the map are not followed
MapLeftAlone == UNCHANGED mapVars

\* area codes of a province, a district and a subdistrict
AreaCodes == {<<"10">>, <<"1001">>, <<"100101">>}
PaletteColors == {defaultPalette[1], defaultPalette[2]}

\* painting: clicks and double-clicks on the areas, the palette, and the
\* button that clears the colours
NextClicks ==
    \/ \E areaCode \in AreaCodes : Click(areaCode) /\ MapLeftAlone
    \/ \E areaCode \in AreaCodes : DblClick(areaCode) /\ MapLeftAlone
    \/ \E color \in PaletteColors : SelectColor(color) /\ MapLeftAlone
    \/ handleClearColors /\ MapLeftAlone

SpecClicks == Init /\ [][NextClicks]_vars

\* the page at work on one province and one district, with files to import:
\* a configuration, a text that is no JSON, and a CSV file of one row
SavedLevels == {"provinces", "districts"}
BorderColors == {<<"#000000">>, <<"#ff0000">>}

ImportedConfig ==
    [currentLevel |-> "districts",
     areaColors |-> <<<<<<"10">>, defaultPalette[2]>>>>,
     selectedProvinces |-> <<<<"10">>>>, selectedDistricts |-> <<>>,
     borderColor |-> <<"#ff0000">>, showAreaNames |-> FALSE]

NotJson == <<"{", Quote, "x">>

JsonFiles == {StringifyConfig(ImportedConfig), NotJson}

CsvFiles ==
    {<<"code", ",", "name", ",", "color", "\n",
       "10", ",", Quote, "n", ",", "m", Quote, ",", " ", "#34c759", "\n",
       "20", ",", "x", "\n">>}

NextSaved ==
    \/ Click(<<"10">>) /\ MapLeftAlone
    \/ DblClick(<<"10">>) /\ MapLeftAlone
    \/ handleClearColors /\ MapLeftAlone
    \/ handleSaveConfig /\ MapLeftAlone
    \/ \E file \in JsonFiles : handleJSONImport(file) /\ MapLeftAlone
    \/ \E file \in JsonFiles : JSONImported(file) /\ MapLeftAlone
    \/ \E file \in CsvFiles : handleCSVImport(file) /\ MapLeftAlone
    \/ \E file \in CsvFiles : CSVImported(file) /\ MapLeftAlone
    \/ handleProvinceToggle(<<"10">>) /\ MapLeftAlone
    \/ handleSelectAll(<<<<"10">>>>) /\ MapLeftAlone
    \/ handleClearSelection /\ MapLeftAlone
    \/ handleDistrictToggle(<<"1001">>) /\ MapLeftAlone
    \/ handleSelectAllDistricts(<<<<"1001">>>>) /\ MapLeftAlone
    \/ handleClearDistrictSelection /\ MapLeftAlone
    \/ \E level \in SavedLevels : SelectLevel(level) /\ MapLeftAlone
    \/ \E color \in BorderColors : SetBorderColor(color) /\ MapLeftAlone
    \/ ToggleAreaNames /\ MapLeftAlone
    \/ Reload /\ MapLeftAlone

SpecSaved == Init /\ [][NextSaved]_vars

\* configurations whose strings hold quotes and backslashes, are empty, or
\* repeat
ConfigStrings == {<<"1", Quote>>, <<Backslash, Quote, "n">>, <<>>}

ConfigFiles ==
    {StringifyConfig(
        [currentLevel |-> level,
         areaColors |-> <<<<code, <<"#", Backslash>>>>, <<<<"20">>, color>>>>,
         selectedProvinces |-> <<code, color>>,
         selectedDistricts |-> IF code = <<>> THEN <<>> ELSE <<code>>,
         borderColor |-> color,
         showAreaNames |-> code = <<>>]) :
        level \in {"subdistricts"}, code \in ConfigStrings,
        color \in {<<"#34c759">>, <<Quote>>}}

\* a configuration is imported, painted on, exported, saved, and comes back
\* from the exported file or from localStorage
NextConfig ==
    \/ \E file \in ConfigFiles \cup {exportedFile} : handleJSONImport(file) /\ MapLeftAlone
    \/ \E file \in ConfigFiles \cup {exportedFile} : JSONImported(file) /\ MapLeftAlone
    \/ Click(<<"10">>) /\ MapLeftAlone
    \/ handleExport /\ MapLeftAlone
    \/ handleSaveConfig /\ MapLeftAlone
    \/ Reload /\ MapLeftAlone

SpecConfig == Init /\ [][NextConfig]_vars

(***************************************************************************)
(* SimpleMap: level and filter changes while fetches are pending.  A       *)
(* handler of the page runs with the render and the effects that follow    *)
(* it; the response of a fetch arrives in a step of its own, and the       *)
(* responses of pending fetches arrive in any order.                       *)
(***************************************************************************)
MaxLevelLoads == 3    \* loadLevelData() calls in one behaviour, the first included

MapLevels == {"provinces", "districts", "subdistricts"}

SetMap(m) ==
    /\ mapLayers' = m.layers
    /\ currentLayerRef' = m.current
    /\ labelsLayer' = m.labels
    /\ provinceBordersRef' = m.provinceBorders
    /\ districtBordersRef' = m.districtBorders

\* the props of the render that follows the handler
PropsRendered ==
    MapProps(currentLevel', selectedProvinces', selectedDistricts', showAreaNames')

\* the effects of the render that follows a handler: loadLevelData() if a
\* dependency of its effect is another value, then the effect on
\* [showAreaNames] if that is another value
MapRenders(load) ==
    /\ load => Len(levelLoads) < MaxLevelLoads
    /\ levelLoads' = IF load
                     THEN Append(levelLoads, [props |-> PropsRendered, pc |-> "level"])
                     ELSE levelLoads
    /\ SetMap(IF showAreaNames' /= showAreaNames
              THEN UpdateLabels(MapState, PropsRendered)
              ELSE MapState)

\* the level selector changes; setCurrentLevel with the level shown renders
\* nothing new
LevelSelected(level) ==
    /\ SelectLevel(level)
    /\ MapRenders(level /= currentLevel)

\* a province of the filter shown at the districts level is toggled: the
\* new array is another object, whatever it holds
ProvinceToggled(provinceCode) ==
    /\ currentLevel = "districts"
    /\ handleProvinceToggle(provinceCode)
    /\ MapRenders(TRUE)

\* a district of the filter shown at the subdistricts level is toggled
DistrictToggled(districtCode) ==
    /\ currentLevel = "subdistricts"
    /\ handleDistrictToggle(districtCode)
    /\ MapRenders(TRUE)

AreaNamesToggled ==
    /\ ToggleAreaNames
    /\ MapRenders(FALSE)

OnlyMap == UNCHANGED <<dmVars, styleVars, geomVars, pointVars, pageVars>>

\* loadLevelData() of call number load, after its fetch and response.json():
\* displayAreas, then the borders of its level
LevelFetched(load) ==
    /\ levelLoads[load].pc = "level"
    /\ LET props == levelLoads[load].props
           shown == displayAreas(MapState, props, load, LevelFile(props.currentLevel))
       IN  CASE props.currentLevel = "districts" ->
                  /\ SetMap(shown)
                  /\ levelLoads' = [levelLoads EXCEPT ![load].pc = "provinceBorders"]
             [] props.currentLevel = "subdistricts" ->
                  /\ SetMap(shown)
                  /\ levelLoads' = [levelLoads EXCEPT ![load].pc = "districtBorders"]
             [] OTHER ->
                  /\ SetMap(removeDistrictBorders(removeProvinceBorders(shown)))
                  /\ levelLoads' = [levelLoads EXCEPT ![load].pc = "done"]
    /\ OnlyMap

\* the fetch of loadLevelData() is rejected, or its body is no JSON: the
\* catch logs the error
LevelFetchFailed(load) ==
    /\ levelLoads[load].pc = "level"
    /\ levelLoads' = [levelLoads EXCEPT ![load].pc = "failed"]
    /\ UNCHANGED <<mapLayers, currentLayerRef, labelsLayer, provinceBordersRef,
                   districtBordersRef>>
    /\ OnlyMap

\* await loadProvinceBorders() of call number load, after its fetch, and
\* the removeDistrictBorders() that follows it
ProvinceBordersFetched(load) ==
    /\ levelLoads[load].pc = "provinceBorders"
    /\ SetMap(removeDistrictBorders(
                  loadProvinceBorders(MapState, levelLoads[load].props, load,
                                      LevelFile("provinces"))))
    /\ levelLoads' = [levelLoads EXCEPT ![load].pc = "done"]
    /\ OnlyMap

\* the fetch of loadProvinceBorders() fails: its catch logs the error and
\* loadLevelData() goes on
ProvinceBordersFailed(load) ==
    /\ levelLoads[load].pc = "provinceBorders"
    /\ SetMap(removeDistrictBorders(MapState))
    /\ levelLoads' = [levelLoads EXCEPT ![load].pc = "failed"]
    /\ OnlyMap

\* await loadDistrictBorders() of call number load, after its fetch, and
\* the removeProvinceBorders() that follows it
DistrictBordersFetched(load) ==
    /\ levelLoads[load].pc = "districtBorders"
    /\ SetMap(removeProvinceBorders(
                  loadDistrictBorders(MapState, levelLoads[load].props, load,
                                      LevelFile("districts"))))
    /\ levelLoads' = [levelLoads EXCEPT ![load].pc = "done"]
    /\ OnlyMap

DistrictBordersFailed(load) ==
    /\ levelLoads[load].pc = "districtBorders"
    /\ SetMap(removeProvinceBorders(MapState))
    /\ levelLoads' = [levelLoads EXCEPT ![load].pc = "failed"]
    /\ OnlyMap

ProvinceCodes == {<<"10">>}
DistrictCodes == {<<"1001">>}

NextMap ==
    \/ \E level \in MapLevels : LevelSelected(level)
    \/ \E provinceCode \in ProvinceCodes : ProvinceToggled(provinceCode)
    \/ \E districtCode \in DistrictCodes : DistrictToggled(districtCode)
    \/ AreaNamesToggled
    \/ \E load \in DOMAIN levelLoads : LevelFetched(load)
    \/ \E load \in DOMAIN levelLoads : LevelFetchFailed(load)
    \/ \E load \in DOMAIN levelLoads : ProvinceBordersFetched(load)
    \/ \E load \in DOMAIN levelLoads : ProvinceBordersFailed(load)
    \/ \E load \in DOMAIN levelLoads : DistrictBordersFetched(load)
    \/ \E load \in DOMAIN levelLoads : DistrictBordersFailed(load)

SpecMap == Init /\ [][NextMap]_vars

(***************************************************************************)
(* Claims about loading.                                                   *)
(***************************************************************************)
StoredLevels == DOMAIN data

\* C1: isDataLoaded() is true exactly when each of the five levels has a
\* collection stored; with four levels or fewer stored it is false.
C1_LoadedIffAllFiveStored ==
    /\ isDataLoaded(data) <=> (\A l \in LevelSet : l \in StoredLevels)
    /\ Cardinality(StoredLevels) \in 0..4 => ~isDataLoaded(data)
    /\ StoredLevels \subseteq LevelSet

\* four levels are stored, the task of the fifth has failed
C1_Witness ==
    /\ Cardinality(StoredLevels) = 4
    /\ \E o \in 1..Len(ops) : \E l \in LevelSet \ StoredLevels :
          ops[o].task[l].status = "failed"
    /\ ~isDataLoaded(data)

IndexHolds(level, collection) ==
    \A i \in 1..Len(collection.features) :
        LET f == collection.features[i]
            terms == extractSearchTerms(f.props, level)
        IN  \A t \in 1..Len(terms) :
                \E e \in 1..Len(searchIndex) :
                    /\ searchIndex[e].term = normalizeSearchTerm(terms[t])
                    /\ \E k \in 1..Len(searchIndex[e].bucket) :
                          /\ searchIndex[e].bucket[k].feature = f
                          /\ searchIndex[e].bucket[k].level = level

IsBlank(q) == \A i \in 1..Len(q) : q[i] = " "

Called == lastSearch.called
Query == lastSearch.query
Limit == lastSearch.limit
Result == lastSearch.result

\* C4: a search with an empty or all-blank query returns the empty list and
\* leaves the index as it was, whatever the index holds.
C4_BlankQueryReturnsEmpty ==
    [][(~lastSearch.called /\ lastSearch'.called /\ IsBlank(lastSearch'.query))
         => (lastSearch'.result = <<>> /\ searchIndex' = searchIndex)]_vars

\* a blank, non-empty query was searched in an index that holds the empty term
\* (every term contains it) and terms of other features
C4_Witness ==
    /\ Called /\ Query = <<" ", " ">> /\ Limit > 0
    /\ \E i \in 1..Len(searchIndex) : searchIndex[i].term = <<>>
    /\ Result = <<>>

\* C5: the list search returns for a non-blank query holds no feature twice:
\* no two positions hold the same feature object, nor two features of one
\* level with the same properties.
C5_NoFeatureTwice ==
    (Called /\ ~IsBlank(Query)) =>
        \A i, j \in 1..Len(Result) :
            i /= j => /\ Result[i].feature.obj /= Result[j].feature.obj
                      /\ ResultKey(Result[i]) /= ResultKey(Result[j])

\* the index entries whose term contains the normalized query
MatchingEntries ==
    {i \in 1..Len(searchIndex) :
        includes(searchIndex[i].term, normalizeSearchTerm(Query))}

\* a returned feature sits in the buckets of two matching terms
C5_Witness ==
    /\ Called /\ ~IsBlank(Query)
    /\ \E p \in 1..Len(Result) : \E i, j \in MatchingEntries :
          /\ i /= j
          /\ \E k \in 1..Len(searchIndex[i].bucket) :
                searchIndex[i].bucket[k].feature = Result[p].feature
          /\ \E k \in 1..Len(searchIndex[j].bucket) :
                searchIndex[j].bucket[k].feature = Result[p].feature

\* The places <<i, k>> (entry i of the index, position k of its bucket) where
\* a result with the given key is indexed under a matching term.
Occurrences(key) ==
    UNION {{<<i, k>> : k \in {n \in 1..Len(searchIndex[i].bucket) :
                                ResultKey(searchIndex[i].bucket[n]) = key}} :
           i \in MatchingEntries}

IsExactEntry(i) == searchIndex[i].term = normalizeSearchTerm(Query)

\* the order of the two passes: the exact term first, then the other matching
\* terms in insertion order; within a term, bucket order
Before(o1, o2) ==
    \/ IsExactEntry(o1[1]) /\ ~IsExactEntry(o2[1])
    \/ /\ IsExactEntry(o1[1]) = IsExactEntry(o2[1])
       /\ (o1[1] < o2[1] \/ (o1[1] = o2[1] /\ o1[2] < o2[2]))

\* the first place, in the order of the passes, where the key is indexed
\* under a matching term; <<0, 0>> if there is none
FirstOccurrence(key) ==
    LET occ == Occurrences(key)
    IN  IF occ = {} THEN <<0, 0>>
        ELSE CHOOSE o \in occ : \A o2 \in occ : o2 = o \/ Before(o, o2)

RECURSIVE FirstOccurrences(_)
FirstOccurrences(results) ==
    IF results = <<>> THEN <<>>
    ELSE <<FirstOccurrence(ResultKey(Head(results)))>> \o FirstOccurrences(Tail(results))

\* the keys indexed under the term equal to the normalized query
ExactKeys ==
    UNION {{ResultKey(searchIndex[i].bucket[k]) : k \in 1..Len(searchIndex[i].bucket)} :
           i \in {j \in MatchingEntries : IsExactEntry(j)}}

\* C6: in the returned list the entries found under the term equal to the
\* normalized query come before those found only under a longer term; every
\* entry is the first one indexed with its key, the list follows the order of
\* these first occurrences (bucket order under the exact term, then term
\* insertion order and bucket order), and no partial entry is returned when
\* the exact term alone gives limit entries or more.
C6_ExactFirstInsertionOrder ==
    (Called /\ ~IsBlank(Query)) =>
        LET exactKeys == ExactKeys
            first == FirstOccurrences(Result)
        IN  /\ \A p \in 1..Len(Result) :
                  /\ first[p] /= <<0, 0>>
                  /\ searchIndex[first[p][1]].bucket[first[p][2]] = Result[p]
            /\ \A p \in 1..(Len(Result) - 1) :
                  /\ Before(first[p], first[p + 1])
                  /\ ResultKey(Result[p]) \notin exactKeys
                        => ResultKey(Result[p + 1]) \notin exactKeys
            /\ Cardinality(exactKeys) >= Limit =>
                  \A p \in 1..Len(Result) : ResultKey(Result[p]) \in exactKeys

\* a list with two exact entries followed by a partial one
C6_Witness ==
    /\ Called /\ ~IsBlank(Query) /\ Len(Result) >= 3
    /\ ResultKey(Result[1]) \in ExactKeys
    /\ ResultKey(Result[2]) \in ExactKeys
    /\ ResultKey(Result[Len(Result)]) \notin ExactKeys

\* C7: search never returns more than limit entries.
C7_AtMostLimit ==
    Called => Len(Result) <= Limit

\* the exact pass alone found more than limit entries
C7_Witness ==
    /\ Called /\ Limit > 0
    /\ Cardinality(ExactKeys) > Limit
    /\ Len(Result) = Limit

SwapCase(c) ==
    CASE c = "a" -> "A"
      [] c = "A" -> "a"
      [] c = "b" -> "B"
      [] c = "B" -> "b"
      [] OTHER -> c

\* the queries one edit away from q: the case of one letter changed, a blank
\* added in front or behind, a blank in front or behind removed
Variants(q) ==
    {[q EXCEPT ![i] = SwapCase(@)] : i \in 1..Len(q)}
    \cup {<<" ">> \o q, q \o <<" ">>}
    \cup (IF q /= <<>> /\ Head(q) = " " THEN {Tail(q)} ELSE {})
    \cup (IF q /= <<>> /\ q[Len(q)] = " " THEN {SubSeq(q, 1, Len(q) - 1)} ELSE {})

\* C8: a query that differs from the one searched only in the case of a
\* letter or in a leading or trailing blank returns the same list.
C8_CaseAndBlankInsensitive ==
    Called => \A q \in Variants(Query) : search(searchIndex, q, Limit) = Result

\* a query with an upper-case letter and a leading blank found something
C8_Witness ==
    /\ Called /\ Query = <<" ", "A">> /\ Result /= <<>>

\* the name P is an ancestor name of a feature of this level
IsAncestorName(props, level, P) ==
    \/ level \in {"districts", "subdistricts"} /\ (props.pro_th = P \/ props.pro_en = P)
    \/ level = "subdistricts" /\ (props.amp_th = P \/ props.amp_en = P)

\* the stored districts and subdistricts that have P as an ancestor name
ChildrenOf(P) ==
    UNION {{<<level, i>> : i \in {n \in 1..Len(data[level].features) :
                IsAncestorName(data[level].features[n].props, level, P)}} :
           level \in DOMAIN data}

Returned(level, props) ==
    \E p \in 1..Len(Result) : Result[p].level = level /\ Result[p].feature.props = props

\* C9 as stated: search(P), with the default limit, returns an entry for
\* every stored district or subdistrict that has the non-empty name P (here
\* even: a name with a character other than a blank) as the name of its
\* province (or, for a subdistrict, of its district).
C9_Original ==
    (Called /\ Limit = DefaultLimit /\ ~IsBlank(Query)) =>
        \A c \in ChildrenOf(Query) :
            Returned(c[1], data[c[1]].features[c[2]].props)

\* C9 amended: for a name P that is not blank, search(P, limit) returns an
\* entry with the level and properties of every such child, unless the list
\* was cut at limit entries.
C9_ChildrenSurfaceUpToLimit ==
    (Called /\ ~IsBlank(Query)) =>
        \A c \in ChildrenOf(Query) :
            \/ Returned(c[1], data[c[1]].features[c[2]].props)
            \/ Len(Result) = Limit

\* searching a province name returned one of its districts and one of its
\* subdistricts, found under the province name only
C9_Witness ==
    /\ Called /\ ~IsBlank(Query) /\ Len(Result) < Limit
    /\ \E c \in ChildrenOf(Query) : c[1] = "districts"
    /\ \E c \in ChildrenOf(Query) : c[1] = "subdistricts"
    /\ \A c \in ChildrenOf(Query) :
          /\ Returned(c[1], data[c[1]].features[c[2]].props)
          /\ data[c[1]].features[c[2]].props.pro_th = Query

(***************************************************************************)
(* Claims about getStatistics().                                           *)
(***************************************************************************)
\* C10: getStatistics of a stored collection without features returns
\* count 0, totalArea 0 and averageArea 0.
C10_EmptyCollectionStatistics ==
    (/\ lastStats.called
     /\ lastStats.level \in DOMAIN data
     /\ data[lastStats.level].features = <<>>)
        => lastStats.result = [count |-> 0, totalArea |-> Fin(0), averageArea |-> Fin(0)]

(***************************************************************************)
(* Claims about the numbers read from area_sqkm and perimeter.             *)
(***************************************************************************)
\* C11: every place that reads area_sqkm or perimeter yields a finite
\* number whatever the property values are: the area range cached for a
\* list of features has finite ends, and a tooltip has a finite area and a
\* finite perimeter.
C11_AreaAndPerimeterFinite ==
    /\ areaRange /= updateAreaRange(<<>>) =>
          IsFinite(areaRange.min) /\ IsFinite(areaRange.max)
    /\ lastTooltip.called =>
          /\ IsFinite(lastTooltip.result.area)
          /\ IsFinite(lastTooltip.result.perimeter)

(***************************************************************************)
(* Claims about bounds, centre and label placement.                        *)
(***************************************************************************)
\* C12: for every feature, also one whose geometry has no coordinate pair,
\* the centre getFeatureCenter returns lies between the corners
\* getFeatureBounds returns, in latitude and in longitude.
C12_CenterWithinBounds ==
    (lastBounds.called /\ lastCenter.called) =>
        LET min == lastBounds.result[1]
            max == lastBounds.result[2]
            center == lastCenter.result
        IN  /\ JsLe(min[1], center[1]) /\ JsLe(center[1], max[1])
            /\ JsLe(min[2], center[2]) /\ JsLe(center[2], max[2])

LabelCalled(type) == lastLabel.called /\ featureGeometry.type = type

\* twice the signed shoelace area of a closed ring
SignedArea2(ring) ==
    ShoelaceSums(ring, 1, [area |-> 0, centroidLng |-> 0, centroidLat |-> 0]).area

\* the outer rings of a Polygon or MultiPolygon whose polygons all have one
OuterRings(g) ==
    IF g.type = "Polygon" THEN <<g.coordinates[1]>>
    ELSE [i \in 1..Len(g.coordinates) |-> g.coordinates[i][1]]

HasOuterRings(g) ==
    /\ g.type \in {"Polygon", "MultiPolygon"}
    /\ g.coordinates /= <<>>
    /\ \A i \in 1..Len(g.coordinates) : g.coordinates[i] /= <<>>

\* the midpoint of the bounding box of some rings with a position
BoxMidpoint(rings) ==
    LET places == {<<i, j>> \in (1..Len(rings)) \X (1..(MaxVertices + 2)) :
                       j <= Len(rings[i])}
        lngs == {rings[p[1]][p[2]][1] : p \in places}
        lats == {rings[p[1]][p[2]][2] : p \in places}
    IN  At(Ratio(SetMin(lats) + SetMax(lats), 2), Ratio(SetMin(lngs) + SetMax(lngs), 2))

\* C13: the label of a Polygon or MultiPolygon whose chosen outer ring is
\* degenerate (here: every outer ring has a position and none has a
\* shoelace area other than zero) is placed at the midpoint of the
\* bounding box, a finite position.
C13_DegenerateRingAtMidpoint ==
    (/\ lastLabel.called
     /\ HasOuterRings(featureGeometry)
     /\ \A i \in 1..Len(OuterRings(featureGeometry)) :
           /\ OuterRings(featureGeometry)[i] /= <<>>
           /\ SignedArea2(OuterRings(featureGeometry)[i]) = 0)
        => lastLabel.result = BoxMidpoint(OuterRings(featureGeometry))

\* the label the Polygon branch gives a feature with this outer ring
PolygonLabel(ring) == labelPosition([type |-> "Polygon", coordinates |-> <<ring>>])

LargestArea2(rings) == SetMax({Abs(SignedArea2(rings[i])) : i \in 1..Len(rings)})

\* C14: the label of a MultiPolygon is the centroid of a sub-polygon whose
\* outer ring has the largest absolute shoelace area, and it is the value
\* the Polygon branch gives for that ring.
C14_LargestSubPolygonCentroid ==
    (/\ LabelCalled("MultiPolygon")
     /\ HasOuterRings(featureGeometry)
     /\ LargestArea2(OuterRings(featureGeometry)) > 0)
        => \E i \in 1..Len(featureGeometry.coordinates) :
              LET ring == featureGeometry.coordinates[i][1]
              IN  /\ Abs(SignedArea2(ring)) = LargestArea2(OuterRings(featureGeometry))
                  /\ lastLabel.result = PolygonLabel(ring)

\* a small sub-polygon followed by a larger one with another centroid
C14_Witness ==
    /\ LabelCalled("MultiPolygon")
    /\ Len(featureGeometry.coordinates) = 2
    /\ HasOuterRings(featureGeometry)
    /\ LET rings == OuterRings(featureGeometry)
       IN  /\ 0 < Abs(SignedArea2(rings[1]))
           /\ Abs(SignedArea2(rings[1])) < Abs(SignedArea2(rings[2]))
           /\ lastLabel.result = PolygonLabel(rings[2])
           /\ lastLabel.result /= PolygonLabel(rings[1])

\* the turn at vertex a on the way from o to b: positive to the left
Turn(o, a, b) == (a[1] - o[1]) * (b[2] - a[2]) - (a[2] - o[2]) * (b[1] - a[1])

\* the way goes on forwards at a
Forward(o, a, b) == (a[1] - o[1]) * (b[1] - a[1]) + (a[2] - o[2]) * (b[2] - a[2]) > 0

\* a closed ring of three or four vertices around a convex polygon with
\* area: no two neighbours at one place, every turn to the same side or
\* straight on
\* the turn at the i-th vertex of a closed ring
TurnAt(ring, i) == Turn(ring[IF i = 1 THEN Len(ring) - 1 ELSE i - 1], ring[i], ring[i + 1])

IsConvexRing(ring) ==
    LET n == Len(ring) - 1
        prev(i) == ring[IF i = 1 THEN n ELSE i - 1]
        next(i) == ring[i + 1]
        turn(i) == TurnAt(ring, i)
    IN  /\ n \in 3..4
        /\ SignedArea2(ring) /= 0
        /\ \A i \in 1..n : ring[i][1] /= next(i)[1] \/ ring[i][2] /= next(i)[2]
        /\ \A i \in 1..n : turn(i) = 0 => Forward(prev(i), ring[i], next(i))
        /\ \/ \A i \in 1..n : turn(i) >= 0
           \/ \A i \in 1..n : turn(i) =< 0

Reverse(seq) == [i \in 1..Len(seq) |-> seq[Len(seq) + 1 - i]]

StrictlyInsideBox(position, ring) ==
    LET lngs == {ring[i][1] : i \in 1..Len(ring)}
        lats == {ring[i][2] : i \in 1..Len(ring)}
    IN  /\ position.k = "at"
        /\ JsLt(Fin(SetMin(lats)), position.lat) /\ JsLt(position.lat, Fin(SetMax(lats)))
        /\ JsLt(Fin(SetMin(lngs)), position.lng) /\ JsLt(position.lng, Fin(SetMax(lngs)))

StyleCalled(colorScheme) == lastStyle.called /\ lastStyle.colorScheme = colorScheme

\* the area getFeatureStyle read from the feature it was given
StyledArea == OrZero(ToNumber(lastStyle.props.area_sqkm))

\* C16: in the by-area scheme, when the cached range has min equal to max,
\* getFeatureStyle returns the fill colour '#3498db' whatever the area of
\* the feature.
C16_EqualRangeDefaultColour ==
    (StyleCalled("by-area") /\ JsStrictEq(areaRange.min, areaRange.max))
        => lastStyle.result.fillColor = Hex("#3498db")

\* a range of one positive value, and a feature of another area
C16_Witness ==
    /\ StyleCalled("by-area")
    /\ JsStrictEq(areaRange.min, areaRange.max)
    /\ JsLt(Fin(0), areaRange.min)
    /\ ~JsStrictEq(StyledArea, areaRange.min)
    /\ lastStyle.result.fillColor = Hex("#3498db")

\* C17: in the by-area scheme with cached min < max, the hue falls linearly
\* with the area from 240 at the cached minimum to 0 at the cached maximum.
C17_HueFromBlueToRed ==
    (/\ StyleCalled("by-area")
     /\ IsFinite(areaRange.min) /\ IsFinite(areaRange.max)
     /\ JsLt(areaRange.min, areaRange.max)
     /\ JsLe(areaRange.min, StyledArea) /\ JsLe(StyledArea, areaRange.max))
        => lastStyle.result.fillColor =
              Hsl(JsSub(Fin(240),
                        JsDiv(JsMul(Fin(240), JsSub(StyledArea, areaRange.min)),
                              JsSub(areaRange.max, areaRange.min))))

(***************************************************************************)
(* Claims about the by-region colours.                                     *)
(***************************************************************************)
\* the region name the claim gives a feature: reg_royin, or reg_nesdb
\* when reg_royin is empty
PreferredRegion(props) ==
    IF props.reg_royin /= <<>> THEN props.reg_royin ELSE props.reg_nesdb

\* C18: in the by-region scheme the fill colour is the colour the cache
\* holds for reg_royin, or for reg_nesdb when reg_royin is empty, and
\* '#3498db' when the feature has no region name or the cache does not
\* hold the name.
C18_RegionColourOrBase ==
    StyleCalled("by-region") =>
        LET name == PreferredRegion(lastStyle.props)
        IN  lastStyle.result.fillColor =
                IF name /= <<>> /\ name \in DOMAIN regionColors
                THEN Hex(regionColors[name])
                ELSE Hex("#3498db")

\* a feature with both names, both cached under different colours
C18_Witness ==
    /\ StyleCalled("by-region")
    /\ lastStyle.props.reg_royin \in DOMAIN regionColors
    /\ lastStyle.props.reg_nesdb \in DOMAIN regionColors
    /\ regionColors[lastStyle.props.reg_royin] /= regionColors[lastStyle.props.reg_nesdb]
    /\ lastStyle.result.fillColor = Hex(regionColors[lastStyle.props.reg_royin])

\* the 1-based places of name in the list
Places(regions, name) == {i \in 1..Len(regions) : regions[i] = name}

\* how many distinct names the list has before the first place of name
DistinctBefore(regions, name) ==
    Cardinality({regions[i] : i \in 1..(SetMin(Places(regions, name)) - 1)})

\* C19 as stated: updateRegionColors(names) gives the k-th distinct name
\* of the list (k from 0, in insertion order) the palette colour k modulo
\* 10, whatever was cached before.
C19_PaletteByDistinctIndex ==
    lastRegions.called =>
        LET regions == lastRegions.regions
        IN  /\ DOMAIN regionColors = {regions[i] : i \in 1..Len(regions)}
            /\ \A name \in DOMAIN regionColors :
                  regionColors[name] = colors[(DistinctBefore(regions, name) % 10) + 1]

\* C19: updateRegionColors(names) caches exactly the names of the list and
\* gives each the palette colour at the 0-based index of its last place in
\* the list modulo 10 (for a list without repeated names: the k-th name
\* gets colour k modulo 10), whatever was cached before.
C19_PaletteByLastIndex ==
    lastRegions.called =>
        LET regions == lastRegions.regions
        IN  /\ DOMAIN regionColors = {regions[i] : i \in 1..Len(regions)}
            /\ \A name \in DOMAIN regionColors :
                  regionColors[name] =
                      colors[((SetMax(Places(regions, name)) - 1) % 10) + 1]

\* a list longer than the palette with a repeated name, whose last name
\* takes the first colour again
C19_Witness ==
    /\ lastRegions.called
    /\ Len(lastRegions.regions) > Len(colors)
    /\ Cardinality(DOMAIN regionColors) < Len(lastRegions.regions)
    /\ regionColors[lastRegions.regions[11]] = colors[1]

(***************************************************************************)
(* Claims about the custom colours.                                        *)
(***************************************************************************)
\* the id the claim gives a feature at a level; <<>> when it has none
LevelId(props, level) ==
    CASE level = "provinces" -> props.pro_code
      [] level = "districts" -> props.amp_code
      [] level = "subdistricts" -> props.tam_code
      [] level = "region_royin" -> props.reg_royin
      [] level = "region_nesdb" -> props.reg_nesdb

\* the colour of the most recent setCustomColor(id, c) after the last
\* clearCustomColors in the log, "" if there is none
RECURSIVE LastCustomColor(_, _)
LastCustomColor(log, id) ==
    IF log = <<>> THEN ""
    ELSE LET last == log[Len(log)]
         IN  IF last.op = "clear" THEN ""
             ELSE IF last.id = id THEN last.color
             ELSE LastCustomColor(SubSeq(log, 1, Len(log) - 1), id)

\* C20: in the custom scheme, after any setCustomColor and
\* clearCustomColors calls, a feature with level-specific id X gets the
\* colour of the most recent setCustomColor(X, c) made after the last
\* clearCustomColors, and '#3498db' if there is none: calls for other ids
\* do not count.
C20_CustomColourOfOwnId ==
    (StyleCalled("custom") /\ LevelId(lastStyle.props, lastStyle.level) /= <<>>)
        => LET color == LastCustomColor(styleLog, LevelId(lastStyle.props, lastStyle.level))
           IN  lastStyle.result.fillColor =
                   IF color /= "" THEN Hex(color) ELSE Hex("#3498db")

\* a colour set, all colours cleared, and another colour set for the id of
\* the feature
C20_Witness ==
    /\ StyleCalled("custom")
    /\ Len(styleLog) = 3
    /\ styleLog[1].op = "set" /\ styleLog[2].op = "clear" /\ styleLog[3].op = "set"
    /\ styleLog[1].id = styleLog[3].id
    /\ styleLog[1].color /= styleLog[3].color
    /\ styleLog[3].id = LevelId(lastStyle.props, lastStyle.level)
    /\ lastStyle.result.fillColor = Hex(styleLog[3].color)

(***************************************************************************)
(* Claims about what writes the caches of the style manager.               *)
(***************************************************************************)
Caches == <<regionColors, areaRange, customColors>>

\* C21: getFeatureStyle, getHighlightStyle and getSelectedStyle leave the
\* region colours, the area range and the custom colours unchanged; each of
\* updateRegionColors, updateAreaRange, setCustomColor and clearCustomColors
\* changes no cache but its own; and no step of the data manager (a level
\* stored, search, getStatistics) changes any of the three.
C21_CachesWrittenByOwnRefreshOnly ==
    [][/\ dmVars' /= dmVars => UNCHANGED Caches
       /\ styleVars' /= styleVars =>
             /\ lastCall' \in {"getFeatureStyle", "getHighlightStyle", "getSelectedStyle"}
                   => UNCHANGED Caches
             /\ lastCall' = "updateRegionColors" => UNCHANGED <<areaRange, customColors>>
             /\ lastCall' = "updateAreaRange" => UNCHANGED <<regionColors, customColors>>
             /\ lastCall' \in {"setCustomColor", "clearCustomColors"}
                   => UNCHANGED <<regionColors, areaRange>>]_vars

\* every cache has been refreshed, a level has been stored, and a style has
\* been read
C21_Witness ==
    /\ regionColors /= << >>
    /\ areaRange /= [min |-> Fin(0), max |-> Fin(0)]
    /\ customColors /= << >>
    /\ nextDoc > 0
    /\ lastCall \in {"getFeatureStyle", "getHighlightStyle", "getSelectedStyle"}

(***************************************************************************)
(* Claims about the point test.                                            *)
(***************************************************************************)
\* C22: isPointInThailand(lat, lng) is true exactly if lat lies between the
\* south and north and lng between the west and east of
\* THAILAND_CONFIG.bounds, the edges included.
C22_PointWithinConfiguredBounds ==
    lastPoint.called =>
        (lastPoint.result <=>
            /\ JsLe(THAILAND_CONFIG.bounds.south, lastPoint.lat)
            /\ JsLe(lastPoint.lat, THAILAND_CONFIG.bounds.north)
            /\ JsLe(THAILAND_CONFIG.bounds.west, lastPoint.lng)
            /\ JsLe(lastPoint.lng, THAILAND_CONFIG.bounds.east))

(***************************************************************************)
(* Claims about the page.                                                  *)
(***************************************************************************)
NoColor == <<>>

\* C23: a click on an area sets the entry of its code in areaColors to the
\* colour selected when it is clicked, a double-click removes the entry of
\* its code, and both leave the entries of all other codes as they were.
C23_ClickPaintsOwnAreaOnly ==
    [][lastEvent'.name \in {"click", "dblclick"} =>
          /\ lastEvent'.name = "click" =>
                /\ EntriesHas(areaColors', lastEvent'.area)
                /\ EntriesGet(areaColors', lastEvent'.area, NoColor) = selectedColor
          /\ lastEvent'.name = "dblclick" => ~EntriesHas(areaColors', lastEvent'.area)
          /\ \A code \in AreaCodes \ {lastEvent'.area} :
                /\ EntriesHas(areaColors', code) = EntriesHas(areaColors, code)
                /\ EntriesGet(areaColors', code, NoColor)
                      = EntriesGet(areaColors, code, NoColor)]_vars

\* two areas hold different colours after a third has lost its colour
C23_Witness ==
    /\ lastEvent.name = "dblclick"
    /\ Len(areaColors) = 2
    /\ areaColors[1][2] /= areaColors[2][2]
    /\ ~EntriesHas(areaColors, lastEvent.area)

\* the configuration that localStorage holds
StoredConfig == getStoredMapConfig.config

\* C28: isSaved becomes true through handleSaveConfig only (or by the page
\* being loaded again); every change of currentLevel, areaColors,
\* selectedProvinces, selectedDistricts, borderColor or showAreaNames by a
\* handler sets isSaved to false; and once a configuration is stored,
\* whenever isSaved is true the stored configuration is the current one.
C28_SavedMeansStored ==
    /\ [](isSaved /\ storage /= <<>> =>
             /\ getStoredMapConfig.found
             /\ [StoredConfig EXCEPT !.areaColors = NewMap(@, <<>>)] = Config)
    /\ [][/\ (isSaved' /\ ~isSaved) => lastEvent'.name \in {"save", "reload"}
          /\ (Config' /= Config /\ lastEvent'.name /= "reload") => ~isSaved']_vars

\* a configuration that took several changes has just been saved
C28_Witness ==
    /\ lastEvent.name = "save"
    /\ isSaved
    /\ areaColors /= <<>>
    /\ selectedProvinces /= <<>>
    /\ ~showAreaNames

\* C29: importing the file that exportConfig wrote gives the six values
\* that were exported, and loading the page again gives the six values that
\* saveMapConfig stored, areaColors with the same codes and colours.
C29_ExportImportRoundTrip ==
    /\ (lastEvent.name \in {"JSONImport", "JSONImportFailed"}
          /\ lastEvent.file = exportedFile /\ exportedFile /= <<>>)
        => (lastEvent.name = "JSONImport" /\ Config = origin.exported)
    /\ (lastEvent.name = "reload" /\ storage /= <<>>) => Config = origin.saved

\* an exported configuration with two painted areas, one of them under a
\* code that holds a quote, has come back from its file
C29_Witness ==
    /\ lastEvent.name = "JSONImport"
    /\ lastEvent.file = exportedFile
    /\ Len(areaColors) = 3
    /\ \E i \in 1..Len(areaColors[1][1]) : areaColors[1][1][i] = Quote

(***************************************************************************)
(* Claims about the search index across reloads.                           *)
(***************************************************************************)
\* the feature object is one of the collection getData(level) returns
InCurrentCollection(feature, level) ==
    /\ level \in DOMAIN data
    /\ \E j \in 1..Len(data[level].features) : data[level].features[j].obj = feature.obj

\* C25: after any loads and reloads, every entry search returns holds a
\* feature object of the collection that getData returns for the entry's
\* level.
C25_SearchServesCurrentCollections ==
    lastSearch.called =>
        \A i \in 1..Len(lastSearch.result) :
            InCurrentCollection(lastSearch.result[i].feature, lastSearch.result[i].level)

(***************************************************************************)
(* Claims about the cached area range of any feature list.                 *)
(***************************************************************************)
\* C30: the range updateAreaRange caches, for the empty list too, has
\* min <= max with both ends finite, and in the by-area scheme a feature
\* whose area lies in the cached range gets the default colour or a finite
\* hue between 0 and 240.
C30_RangeOrderedAndHueDefined ==
    /\ JsLe(areaRange.min, areaRange.max)
    /\ IsFinite(areaRange.min) /\ IsFinite(areaRange.max)
    /\ (/\ StyleCalled("by-area")
        /\ JsLe(areaRange.min, StyledArea) /\ JsLe(StyledArea, areaRange.max)
        /\ lastStyle.result.fillColor.k = "hsl")
           => /\ IsFinite(lastStyle.result.fillColor.hue)
              /\ JsLe(Fin(0), lastStyle.result.fillColor.hue)
              /\ JsLe(lastStyle.result.fillColor.hue, Fin(240))

(***************************************************************************)
(* Claims about the layers of SimpleMap.                                   *)
(***************************************************************************)
\* every loadLevelData() call made has run to its end with its fetches
\* answered
AllFetchesCompleted == \A load \in DOMAIN levelLoads : levelLoads[load].pc = "done"

\* the border overlays of a kind that are on the map
Overlays(kind) == {layer \in mapLayers : layer.kind = kind}

\* C24: whenever the current level is subdistricts, whatever the filters
\* and the showAreaNames toggle, the labels layer holds no label marker.
C24_SubdistrictsShowNoLabels ==
    currentLevel = "subdistricts" => labelsLayer = <<>>

\* C26: once every pending fetch has completed, the area layer on the map
\* is the one built from the data of the current level, in whatever order
\* the responses arrived.
C26_LayerOfCurrentLevelShown ==
    AllFetchesCompleted =>
        /\ currentLayerRef \in mapLayers
        /\ currentLayerRef.level = currentLevel
        /\ \A layer \in mapLayers : layer.kind = "areas" => layer = currentLayerRef

\* C27: once every pending fetch has completed, the province borders are
\* on the map only at the districts level and the district borders only at
\* the subdistricts level; and at any time at most one overlay of each kind
\* is on the map.
C27_BordersMatchCurrentLevel ==
    /\ AllFetchesCompleted =>
          /\ Overlays("provinceBorders") /= {} => currentLevel = "districts"
          /\ Overlays("districtBorders") /= {} => currentLevel = "subdistricts"
    /\ Cardinality(Overlays("provinceBorders")) <= 1
    /\ Cardinality(Overlays("districtBorders")) <= 1

====
